---- MODULE Spec2Model ----
(***************************************************************************)
(* Model of the orchestration layer of oral-practice                       *)
(* (src/orchestrator/main.py): the generation backend client, the exercise *)
(* start generators and the session store.                                 *)
(*                                                                         *)
(* Strings are sequences of atoms (a character, or a run of ordinary       *)
(* characters), so that strip, lower, prefix tests, substring tests, the   *)
(* bracket regular expression and json.loads are computed the way the      *)
(* Python code computes them.  JSON values are tagged records.             *)
(***************************************************************************)
EXTENDS Integers, Sequences, FiniteSets, TLC

VARIABLES
    req,                \* the inbound request being handled
    pc,                 \* position of the handler
    DEEPSEEK_API_KEY,   \* configuration: TRUE iff the credential is non-empty
    calls,              \* outbound generation calls issued for this request
    result,             \* what the caller receives
    attempts,           \* substitution_start: loop counter
    base_sentence,      \* substitution_start
    slots,              \* substitution_start
    labels_in_sentence, \* substitution_start
    intent_text,        \* resolve_theme
    anchor_text,        \* resolve_theme: anchor_data.get("response", "")
    log,                \* history: what happened while the request was handled
    SESSIONS,           \* the session store
    inflight,           \* session chats waiting for the backend, each with its call
    next_rid,           \* history: arrival number of the next session chat
    completed,          \* history: chat turns that succeeded, per session
    last_mode,          \* history: the mode last asked for, per session
    answered,           \* history: the session request that result answers
    recorded,           \* history: per session, the chats whose turns were
                        \* recorded, in the order of recording
    data                \* what the awaited backend call gave: the reply of the
                        \* backend, or the error raised; None for a session
                        \* request that awaits no call

vars == <<req, pc, DEEPSEEK_API_KEY, calls, result,
          attempts, base_sentence, slots, labels_in_sentence, intent_text,
          anchor_text, log, SESSIONS, inflight, next_rid, completed, last_mode,
          answered, recorded, data>>

subVars == <<attempts, base_sentence, slots, labels_in_sentence>>
themeVars == <<intent_text, anchor_text>>
sessVars == <<SESSIONS, inflight, next_rid, completed, last_mode, answered,
             recorded>>

-----------------------------------------------------------------------------
(* Bounds of the explored inputs *)

\* longest sentence the backend writes, counted in items (a word, a space,
\* a bracket placeholder)
MaxItems == 3
\* most entries in the "slots" array of a backend payload
MaxSlots == 2
\* session chats issued in one behaviour
MaxRequests == 2
\* most entries in the "scaffolds" array of a backend payload
MaxScaffolds == 5
\* most entries in the "anchors" array of a backend payload, and the
\* largest count a theme request asks for
MaxCards == 3

-----------------------------------------------------------------------------
(* Python values *)

None == [t |-> "none"]

\* str.lower() on the atoms that occur in the explored inputs: single
\* letters, and the words that stand as one atom
LowerChar(c) ==
    CASE c = "A" -> "a" [] c = "D" -> "d" [] c = "E" -> "e" [] c = "H" -> "h"
      [] c = "N" -> "n" [] c = "R" -> "r" [] c = "S" -> "s" [] c = "Y" -> "y"
      [] c = "Z" -> "z"
      [] c = "Phrase" -> "phrase" [] c = "Hint" -> "hint"
      [] c = "Sentence" -> "sentence" [] c = "SENTENCE" -> "sentence"
      [] c = "Cue" -> "cue" [] c = "CUE" -> "cue"
      [] OTHER -> c

Lower(s) == [i \in 1..Len(s) |-> LowerChar(s[i])]

\* str.startswith
StartsWith(s, p) == Len(s) >= Len(p) /\ SubSeq(s, 1, Len(p)) = p

\* the `in` operator on strings: sub occurs in s as a contiguous substring
Contains(s, sub) ==
    \E i \in 1..(Len(s) - Len(sub) + 1) : SubSeq(s, i, i + Len(sub) - 1) = sub

\* index of the first "]" at or after position i, 0 if none
RECURSIVE FirstClose(_, _)
FirstClose(s, i) ==
    IF i > Len(s) THEN 0
    ELSE IF s[i] = "]" THEN i
    ELSE FirstClose(s, i + 1)

\* re.findall(r"\[([^\]]+)\]", s): leftmost non-overlapping matches; the
\* captured label is one or more characters other than "]"
RECURSIVE FindFrom(_, _)
FindFrom(s, i) ==
    IF i > Len(s) THEN <<>>
    ELSE IF s[i] = "["
         THEN LET j == FirstClose(s, i + 1)
              IN  IF j > i + 1
                  THEN <<SubSeq(s, i + 1, j - 1)>> \o FindFrom(s, j + 1)
                  ELSE FindFrom(s, i + 1)
         ELSE FindFrom(s, i + 1)

FindLabels(s) == FindFrom(s, 1)

\* f"[{lbl}]"
Bracketed(lbl) == <<"[">> \o lbl \o <<"]">>

Range(f) == {f[i] : i \in DOMAIN f}

RECURSIVE Concat(_)
Concat(ss) == IF ss = <<>> THEN <<>> ELSE Head(ss) \o Concat(Tail(ss))

\* all sequences over S of length at most n
SeqsUpTo(S, n) == UNION {[1..k -> S] : k \in 0..n}

-----------------------------------------------------------------------------
(* Text atoms.  A text is a sequence of atoms: the characters that matter  *)
(* to the code ("{", "[", the quote, the newline ...) one by one, and runs *)
(* of ordinary characters (a word, a key name) as one atom each.           *)

QUOTE == "\""
NL == "\n"
\* the code-fence marker (three backticks), one atom
FENCE == "<fence>"

IsSpace(c) == c = " " \/ c = NL

Digits == {"0", "1", "2", "3", "4", "5", "6", "7", "8", "9"}

RECURSIVE LStripWs(_)
LStripWs(s) == IF s # <<>> /\ IsSpace(Head(s)) THEN LStripWs(Tail(s)) ELSE s

RECURSIVE RStripWs(_)
RStripWs(s) ==
    IF s # <<>> /\ IsSpace(s[Len(s)]) THEN RStripWs(SubSeq(s, 1, Len(s) - 1)) ELSE s

\* str.strip() on a text that may hold newlines
StripWs(s) == RStripWs(LStripWs(s))

\* index of the first occurrence of atom c at or after i, 0 if none
RECURSIVE IndexFrom(_, _, _)
IndexFrom(s, c, i) ==
    IF i > Len(s) THEN 0
    ELSE IF s[i] = c THEN i
    ELSE IndexFrom(s, c, i + 1)

\* index of the last occurrence of atom c at or before i, 0 if none
RECURSIVE LastIndexFrom(_, _, _)
LastIndexFrom(s, c, i) ==
    IF i < 1 THEN 0
    ELSE IF s[i] = c THEN i
    ELSE LastIndexFrom(s, c, i - 1)

\* index at which sub first occurs in s, 0 if it does not
IndexOfSub(s, sub) ==
    IF Contains(s, sub)
    THEN CHOOSE i \in 1..(Len(s) - Len(sub) + 1) :
            /\ SubSeq(s, i, i + Len(sub) - 1) = sub
            /\ \A j \in 1..(i - 1) : SubSeq(s, j, j + Len(sub) - 1) # sub
    ELSE 0

\* str.splitlines()
RECURSIVE SplitLines(_)
SplitLines(s) ==
    IF s = <<>> THEN <<>>
    ELSE LET n == IndexFrom(s, NL, 1)
         IN  IF n = 0 THEN <<s>>
             ELSE <<SubSeq(s, 1, n - 1)>> \o SplitLines(SubSeq(s, n + 1, Len(s)))

\* "\n".join(lines)
RECURSIVE JoinLines(_)
JoinLines(ls) ==
    IF ls = <<>> THEN <<>>
    ELSE IF Len(ls) = 1 THEN ls[1]
    ELSE ls[1] \o <<NL>> \o JoinLines(Tail(ls))

-----------------------------------------------------------------------------
(* JSON values and json.loads *)

JStr(s) == [t |-> "str", v |-> s]
JNum(n) == [t |-> "num", v |-> n]
JNull == [t |-> "null"]
JList(xs) == [t |-> "list", v |-> xs]
\* an object is the sequence of its members [k |-> key, v |-> value], in text order
JObj(ms) == [t |-> "obj", v |-> ms]

Failed == [ok |-> FALSE]

RECURSIVE SkipWs(_, _)
SkipWs(s, i) == IF i <= Len(s) /\ IsSpace(s[i]) THEN SkipWs(s, i + 1) ELSE i

DigitValue(c) ==
    CASE c = "0" -> 0 [] c = "1" -> 1 [] c = "2" -> 2 [] c = "3" -> 3 [] c = "4" -> 4
      [] c = "5" -> 5 [] c = "6" -> 6 [] c = "7" -> 7 [] c = "8" -> 8 [] c = "9" -> 9

\* a string literal opening at s[i] = QUOTE and closing at s[j] (j = 0: no
\* closing quote); a raw newline inside a literal is rejected (json's
\* strict mode)
StringTo(s, i, j) ==
    IF j = 0 \/ IndexFrom(SubSeq(s, i + 1, j - 1), NL, 1) # 0 THEN Failed
    ELSE [ok |-> TRUE, v |-> JStr(SubSeq(s, i + 1, j - 1)), i |-> j + 1]

ParseString(s, i) == StringTo(s, i, IndexFrom(s, QUOTE, i + 1))

RECURSIVE ParseValue(_, _)
RECURSIVE ParseElems(_, _, _)
RECURSIVE ParseMembers(_, _, _)

\* after an element and the whitespace behind it: "]" or "," at s[k]
ElemsSep(s, k, acc) ==
    IF k > Len(s) THEN Failed
    ELSE IF s[k] = "]" THEN [ok |-> TRUE, v |-> JList(acc), i |-> k + 1]
    ELSE IF s[k] = "," THEN ParseElems(s, SkipWs(s, k + 1), acc)
    ELSE Failed

\* after the element e of a list whose earlier elements are acc
ElemsNext(s, e, acc) ==
    IF ~e.ok THEN Failed ELSE ElemsSep(s, SkipWs(s, e.i), Append(acc, e.v))

\* the elements of a list, from s[i], after acc
ParseElems(s, i, acc) == ElemsNext(s, ParseValue(s, i), acc)

\* after a member and the whitespace behind it: "}" or "," at s[k]
MembersSep(s, k, acc) ==
    IF k > Len(s) THEN Failed
    ELSE IF s[k] = "}" THEN [ok |-> TRUE, v |-> JObj(acc), i |-> k + 1]
    ELSE IF s[k] = "," THEN ParseMembers(s, SkipWs(s, k + 1), acc)
    ELSE Failed

\* after the value e of the member named key
MemberValue(s, key, e, acc) ==
    IF ~e.ok THEN Failed
    ELSE MembersSep(s, SkipWs(s, e.i), Append(acc, [k |-> key, v |-> e.v]))

\* after the key of a member and the whitespace behind it: ":" at s[c]
MemberColon(s, key, c, acc) ==
    IF c > Len(s) \/ s[c] # ":" THEN Failed
    ELSE MemberValue(s, key, ParseValue(s, SkipWs(s, c + 1)), acc)

\* after the string literal that names a member
MemberKey(s, key, acc) ==
    IF ~key.ok THEN Failed ELSE MemberColon(s, key.v.v, SkipWs(s, key.i), acc)

\* the members of an object, from s[i], after acc
ParseMembers(s, i, acc) ==
    IF i > Len(s) \/ s[i] # QUOTE THEN Failed
    ELSE MemberKey(s, ParseString(s, i), acc)

\* behind "[" and whitespace, at s[k]
ListBody(s, k) ==
    IF k <= Len(s) /\ s[k] = "]" THEN [ok |-> TRUE, v |-> JList(<<>>), i |-> k + 1]
    ELSE ParseElems(s, k, <<>>)

\* behind "{" and whitespace, at s[k]
ObjBody(s, k) ==
    IF k <= Len(s) /\ s[k] = "}" THEN [ok |-> TRUE, v |-> JObj(<<>>), i |-> k + 1]
    ELSE ParseMembers(s, k, <<>>)

\* the value starting at s[i] (whitespace already skipped)
ParseValue(s, i) ==
    IF i > Len(s) THEN Failed
    ELSE IF s[i] = QUOTE THEN ParseString(s, i)
    ELSE IF s[i] \in Digits THEN [ok |-> TRUE, v |-> JNum(DigitValue(s[i])), i |-> i + 1]
    ELSE IF s[i] = "null" THEN [ok |-> TRUE, v |-> JNull, i |-> i + 1]
    ELSE IF s[i] = "[" THEN ListBody(s, SkipWs(s, i + 1))
    ELSE IF s[i] = "{" THEN ObjBody(s, SkipWs(s, i + 1))
    ELSE Failed

\* the whole text must be one value
WholeText(s, r) ==
    IF r.ok /\ SkipWs(s, r.i) > Len(s) THEN [ok |-> TRUE, v |-> r.v] ELSE Failed

\* json.loads(s): [ok |-> TRUE, v |-> value], or [ok |-> FALSE] where Python
\* raises JSONDecodeError
JsonLoads(s) == WholeText(s, ParseValue(s, SkipWs(s, 1)))

\* Python truthiness of a JSON value (or None)
Truthy(x) ==
    CASE x.t = "none" -> FALSE
      [] x.t = "null" -> FALSE
      [] x.t = "num" -> x.v # 0
      [] x.t \in {"str", "list", "obj"} -> x.v # <<>>

IsDict(x) == x.t = "obj"

\* dict.get(key, default): the last member with that key wins
RECURSIVE MemberGet(_, _, _)
MemberGet(ms, key, default) ==
    IF ms = <<>> THEN default
    ELSE IF ms[Len(ms)].k = key THEN ms[Len(ms)].v
    ELSE MemberGet(SubSeq(ms, 1, Len(ms) - 1), key, default)

DictGet(d, key, default) == MemberGet(d.v, key, default)

\* x or y
Or(x, y) == IF Truthy(x) THEN x ELSE y

DigitAtom(n) ==
    CASE n = 0 -> "0" [] n = 1 -> "1" [] n = 2 -> "2" [] n = 3 -> "3" [] n = 4 -> "4"
      [] n = 5 -> "5" [] n = 6 -> "6" [] n = 7 -> "7" [] n = 8 -> "8" [] n = 9 -> "9"

\* str(x) of a string, a one-digit number or None
PyStr(x) ==
    CASE x.t = "str" -> x.v
      [] x.t = "num" -> <<DigitAtom(x.v)>>
      [] x.t = "null" -> <<"None">>
      [] x.t \in {"list", "obj"} -> <<"repr">>   \* a non-blank rendering

-----------------------------------------------------------------------------
(* What a backend writes: the text of a JSON value *)

RECURSIVE Serialize(_)
RECURSIVE SerializeElems(_)
RECURSIVE SerializeMembers(_)

Serialize(x) ==
    CASE x.t = "str" -> <<QUOTE>> \o x.v \o <<QUOTE>>
      [] x.t = "num" -> <<DigitAtom(x.v)>>
      [] x.t = "null" -> <<"null">>
      [] x.t = "list" -> <<"[">> \o SerializeElems(x.v) \o <<"]">>
      [] x.t = "obj" -> <<"{">> \o SerializeMembers(x.v) \o <<"}">>

SerializeElems(xs) ==
    IF xs = <<>> THEN <<>>
    ELSE IF Len(xs) = 1 THEN Serialize(xs[1])
    ELSE Serialize(xs[1]) \o <<",", " ">> \o SerializeElems(Tail(xs))

SerializeMembers(ms) ==
    IF ms = <<>> THEN <<>>
    ELSE LET m == <<QUOTE>> \o ms[1].k \o <<QUOTE, ":", " ">> \o Serialize(ms[1].v)
         IN  IF Len(ms) = 1 THEN m ELSE m \o <<",", " ">> \o SerializeMembers(Tail(ms))


-----------------------------------------------------------------------------
(* Configuration (environment defaults) *)

OLLAMA_MODEL == <<"m", "i", "s", "t", "r", "a", "l">>
DEEPSEEK_MODEL == <<"d", "e", "e", "p", "s", "e", "e", "k", "-", "c", "h", "a", "t">>
DEFAULT_MODEL == <<"d", "e", "e", "p", "s", "e", "e", "k", "-", "c", "h", "a", "t">>

-----------------------------------------------------------------------------
(* Sampling options: a dict, as the set of its <<key, value>> pairs.       *)
(* Temperatures and top_p are written in hundredths.                       *)

OptGet(o, k, d) == IF \E p \in o : p[1] = k THEN (CHOOSE p \in o : p[1] = k)[2] ELSE d

\* dict(o); .update(u)
OptUpdate(o, u) == {p \in o : ~ \E q \in u : q[1] = p[1]} \cup u

-----------------------------------------------------------------------------
(* Generation backend client *)

\* the request _query_ollama posts
QueryOllama(prompt, model, options, context) ==
    [adapter |-> "ollama",
     model |-> Or(model, JStr(OLLAMA_MODEL)).v,
     prompt |-> prompt,
     options |-> options,
     context |-> IF Truthy(context) THEN context ELSE None]

\* the request _query_deepseek posts, or the HTTPException it raises when
\* the credential is not set
QueryDeepseek(prompt, model, options, key) ==
    IF ~key THEN [adapter |-> "none", raised |-> 500]
    ELSE [adapter |-> "deepseek",
          model |-> Or(model, JStr(DEEPSEEK_MODEL)).v,
          prompt |-> prompt,
          temperature |-> OptGet(options, "temperature", 60),
          top_p |-> OptGet(options, "top_p", 90)]

\* _query_llm: dispatch on the lower-cased name of the chosen model
QueryLlm(prompt, model, options, context, key) ==
    LET chosen_model == Or(Or(model, JStr(DEFAULT_MODEL)), JStr(OLLAMA_MODEL))
        name == Lower(Or(chosen_model, JStr(<<>>)).v)
    IN  IF StartsWith(name, <<"d", "e", "e", "p", "s", "e", "e", "k">>)
        THEN QueryDeepseek(prompt, chosen_model, options, key)
        ELSE QueryOllama(prompt, chosen_model, options, context)

\* what the awaited call gives back to the handler: the response text of
\* the result dict, or httpx.HTTPError (transport failure, non-2xx status)
HttpError == [kind |-> "error"]
Text(s) == [kind |-> "text", text |-> s]

-----------------------------------------------------------------------------
(* Difficulty *)

Str(s) == JStr(s)

EASY == <<"e", "a", "s", "y">>
MEDIUM == <<"m", "e", "d", "i", "u", "m">>
HARD == <<"h", "a", "r", "d">>
EXPERT == <<"e", "x", "p", "e", "r", "t">>

\* diff = (req.difficulty or "medium").lower()
Diff(difficulty) == Lower(Or(difficulty, JStr(MEDIUM)).v)

\* {...}.get(diff, default) on a difficulty-indexed table
DiffTable(diff, easy, medium, hard, expert, default) ==
    CASE diff = EASY -> easy
      [] diff = MEDIUM -> medium
      [] diff = HARD -> hard
      [] diff = EXPERT -> expert
      [] OTHER -> default

-----------------------------------------------------------------------------
(* substitution_start *)

SlotCount(diff) == DiffTable(diff, 1, 2, 3, 4, 2)
OptionsCount(diff) == DiffTable(diff, 3, 3, 4, 5, 3)

SubstitutionPrompt(r) ==
    [endpoint |-> "substitution_start",
     slot_count |-> SlotCount(Diff(r.difficulty)),
     options_count |-> OptionsCount(Diff(r.difficulty)),
     diff |-> Diff(r.difficulty)]

SubstitutionOptions == {<<"temperature", 50>>, <<"top_p", 90>>}

\* for slot in slots_data: the items Python iterates over (a string yields
\* its characters, a dict its keys)
IterItems(x) ==
    CASE x.t = "list" -> x.v
      [] x.t = "str" -> [i \in 1..Len(x.v) |-> JStr(<<x.v[i]>>)]
      [] x.t = "obj" -> [i \in 1..Len(x.v) |-> JStr(x.v[i].k)]

Iterable(x) == x.t \in {"list", "str", "obj"}

\* [str(o) for o in options]
StrAll(xs) == [i \in 1..Len(xs) |-> PyStr(xs[i])]

\* lines 708-709, for a slot that is a dict
RECURSIVE SlotsLoop(_, _)
SlotAppend(items, acc, label, options) ==
    IF options.t = "list" /\ Truthy(label)
    THEN SlotsLoop(Tail(items),
             Append(acc, [label |-> PyStr(label), options |-> StrAll(options.v)]))
    ELSE SlotsLoop(Tail(items), acc)

\* lines 705-709: the loop over slots_data; raised where slot.get raises
SlotsLoop(items, acc) ==
    IF items = <<>> THEN [raised |-> FALSE, slots |-> acc]
    ELSE IF ~IsDict(Head(items)) THEN [raised |-> TRUE, slots |-> acc]
    ELSE SlotAppend(items, acc,
             Or(Or(DictGet(Head(items), <<"label">>, None),
                   DictGet(Head(items), <<"type">>, None)), JStr(<<>>)),
             Or(DictGet(Head(items), <<"options">>, None), JList(<<>>)))

\* lines 710-711: the except clause; the slots appended so far stay
SubstitutionExcept(resp_text, ss) ==
    [base_sentence |-> IF resp_text # <<>> THEN SplitLines(resp_text)[1] ELSE <<>>,
     slots |-> ss]

\* after the loop over slots_data
SubstitutionSlots(resp_text, b, r) ==
    IF r.raised THEN SubstitutionExcept(resp_text, r.slots)
    ELSE [base_sentence |-> StripWs(b.v), slots |-> r.slots]

\* lines 703-705
SubstitutionFields(resp_text, b, slots_data) ==
    IF b.t # "str" \/ ~Iterable(slots_data) THEN SubstitutionExcept(resp_text, <<>>)
    ELSE SubstitutionSlots(resp_text, b, SlotsLoop(IterItems(slots_data), <<>>))

\* lines 702-711, given what json.loads made of the text
SubstitutionTry(resp_text, parsed) ==
    IF ~parsed.ok \/ ~IsDict(parsed.v) THEN SubstitutionExcept(resp_text, <<>>)
    ELSE SubstitutionFields(resp_text,
             DictGet(parsed.v, <<"base_sentence">>, JStr(<<>>)),
             DictGet(parsed.v, <<"slots">>, JList(<<>>)))

\* lines 698-711: the try block and its except clause
SubstitutionParse(resp_text) == SubstitutionTry(resp_text, JsonLoads(resp_text))

\* variant: a loop that admits a third attempt
LoopConditionThree(n) == n < 3

\* line 689: while attempts < 2
LoopCondition(n) == n < 2

\* line 714
SubstitutionValid(labels, ss, slot_count) ==
    Len(labels) = Len(ss) /\ Len(ss) = slot_count

PlaceholderOptions == <<<<"option", "1">>, <<"option", "2">>, <<"option", "3">>>>

DefaultSentence ==
    <<"I", " ", "need", " ", "a", " ", "[", "slot", "1", "]", " ", "right", " ", "now", ".">>

\* [f"slot{i+1}" for i in range(slot_count)]
ManufacturedLabels(slot_count) == [i \in 1..slot_count |-> <<"slot", DigitAtom(i)>>]

\* lines 722-724
RECURSIVE AddMissingSlots(_, _)
AddMissingSlots(labels, ss) ==
    IF labels = <<>> THEN ss
    ELSE IF \E i \in 1..Len(ss) : ss[i].label = Head(labels)
         THEN AddMissingSlots(Tail(labels), ss)
         ELSE AddMissingSlots(Tail(labels),
                  Append(ss, [label |-> Head(labels), options |-> PlaceholderOptions]))

\* lines 727-729
RECURSIVE EnsurePlaceholders(_, _)
EnsurePlaceholders(labels, sentence) ==
    IF labels = <<>> THEN sentence
    ELSE IF Contains(sentence, Bracketed(Head(labels)))
         THEN EnsurePlaceholders(Tail(labels), sentence)
         ELSE EnsurePlaceholders(Tail(labels),
                  sentence \o <<" ">> \o Bracketed(Head(labels)))

Prefix(s, n) == SubSeq(s, 1, IF n < Len(s) THEN n ELSE Len(s))

\* lines 718-729: the artifact after the loop
SubstitutionFallback(sentence, ss, labels_found, slot_count) ==
    LET labels == IF labels_found # <<>> THEN labels_found
                  ELSE ManufacturedLabels(slot_count)
        s1 == IF sentence = <<>> THEN DefaultSentence ELSE sentence
        ss1 == Prefix(AddMissingSlots(Prefix(labels, slot_count), ss), slot_count)
    IN  [base_sentence |-> EnsurePlaceholders(labels, s1), slots |-> ss1]

NeedsFallback(sentence, ss, slot_count) ==
    Len(ss) # slot_count \/ Len(FindLabels(sentence)) # slot_count


-----------------------------------------------------------------------------
(* What the caller receives *)

Pending == [status |-> "pending"]
Ok(body) == [status |-> "ok", body |-> body]
\* an HTTPException, or an exception that leaves the handler (status 500)
Error(code) == [status |-> "error", code |-> code]

\* variant: the failure of a forwarded call is answered as an empty success
BadGatewayAbsorbed == Ok(None)

\* HTTPException(status_code=502) of the pass-through handlers (lines 323,
\* 328, 343, 348, 418, 472)
BadGateway == Error(502)

-----------------------------------------------------------------------------
(* Requests and backend texts explored *)

MISTRAL == <<"m", "i", "s", "t", "r", "a", "l">>

Difficulties ==
    {None, JStr(EASY), JStr(MEDIUM), JStr(HARD), JStr(EXPERT),
     JStr(<<"H", "A", "R", "D">>), JStr(<<"z", "z">>)}

\* model overrides: absent, empty, a local model, the remote family in two
\* spellings
ModelHints ==
    {None, JStr(<<>>), JStr(MISTRAL), JStr(DEEPSEEK_MODEL),
     JStr(<<"D", "e", "e", "p", "S", "e", "e", "k", "-", "R", "1">>)}

PH(l) == <<"[", l, "]">>

SentenceItems == {<<"w">>, PH("a"), PH("b")}
Sentences == {Concat(q) : q \in SeqsUpTo(SentenceItems, MaxItems)}

Member(k, v) == [k |-> <<k>>, v |-> v]

SomeOptions == JList(<<JStr(<<"x">>), JNum(2)>>)
SlotEntry(l) == JObj(<<Member("label", JStr(<<l>>)), Member("options", SomeOptions)>>)
SlotEntries == {SlotEntry("a"), SlotEntry("b"), JObj(<<Member("options", SomeOptions)>>),
                JNum(5)}

SubstitutionPayload(s, entries) ==
    JObj(<<Member("base_sentence", s), Member("slots", entries)>>)

\* payloads with a sentence and a slots array, as compact JSON
SubstitutionPayloadTexts ==
    {Serialize(SubstitutionPayload(JStr(s), JList(es))) :
        s \in Sentences, es \in SeqsUpTo(SlotEntries, MaxSlots)}

GoodPayload == SubstitutionPayload(JStr(<<"w", " ">> \o PH("a")), JList(<<SlotEntry("a")>>))

\* other shapes: empty text, JSON that is no object, missing and wrongly
\* typed fields, a "type" key for the label, a numeric label, options that
\* are no list, a fenced payload, a payload inside prose, a pretty-printed
\* payload, surrounding whitespace
SubstitutionOddTexts ==
    {<<>>,
     Serialize(JList(<<>>)),
     Serialize(JNum(5)),
     Serialize(JObj(<<>>)),
     Serialize(SubstitutionPayload(JNull, JList(<<SlotEntry("a")>>))),
     Serialize(SubstitutionPayload(JStr(PH("a")), JNull)),
     Serialize(SubstitutionPayload(JStr(PH("a")), JStr(<<"a">>))),
     Serialize(SubstitutionPayload(JStr(<<" ">>), JList(<<>>))),
     Serialize(SubstitutionPayload(JStr(PH("a")),
         JList(<<JObj(<<Member("type", JStr(<<"a">>))>>)>>))),
     Serialize(SubstitutionPayload(JStr(PH("7")),
         JList(<<JObj(<<Member("label", JNum(7))>>)>>))),
     Serialize(SubstitutionPayload(JStr(PH("a")),
         JList(<<JObj(<<Member("label", JStr(<<"a">>)),
                        Member("options", JStr(<<"x">>))>>)>>))),
     <<FENCE, "json", NL>> \o Serialize(GoodPayload) \o <<NL, FENCE>>,
     <<"Sure", "!", " ">> \o Serialize(GoodPayload) \o <<" ", "Hope", ".">>,
     <<"{", NL, QUOTE, "base_sentence", QUOTE, ":", " ">> \o Serialize(JStr(PH("a")))
         \o <<",", NL, QUOTE, "slots", QUOTE, ":", " ", "5", NL, "}">>,
     <<" ", NL>> \o Serialize(GoodPayload) \o <<NL>>,
     <<NL, " ">> \o PH("a") \o <<" ", NL, "w">>}

SubstitutionTexts ==
    SubstitutionPayloadTexts \cup (Sentences \ {<<>>}) \cup SubstitutionOddTexts

\* a few texts of each kind
SubstitutionBasicTexts ==
    {<<>>, <<"w">>, PH("a") \o PH("b"), Serialize(GoodPayload),
     Serialize(SubstitutionPayload(JStr(PH("a") \o PH("b")),
                                   JList(<<SlotEntry("a"), SlotEntry("b")>>)))}

Replies(texts) == {HttpError} \cup {Text(s) : s \in texts}

-----------------------------------------------------------------------------
(* substitution_start: the handler *)

\* lines 686-696: one more attempt, the generation call is issued.
\* data, base_sentence, slots and labels_in_sentence of the previous attempt
\* are dead from here on: lines 692, 699-700 and 713 overwrite them before
\* any read, and the two raise paths never read them.  They are cleared
\* here, where they die, not where they are overwritten, so that a second
\* attempt starts from one state.
SubstitutionCall ==
    /\ req.endpoint = "substitution_start"
    /\ pc = "loop"
    /\ LoopCondition(attempts)
    /\ attempts' = attempts + 1
    /\ base_sentence' = <<>>
    /\ slots' = <<>>
    /\ labels_in_sentence' = <<>>
    /\ data' = None
    /\ \E c \in {QueryLlm(SubstitutionPrompt(req), req.model, SubstitutionOptions,
                         None, DEEPSEEK_API_KEY)} :
           IF c.adapter = "none"
           THEN /\ result' = Error(c.raised)
                /\ pc' = "done"
                /\ log' = Append(log, "config_error")
                /\ UNCHANGED calls
           ELSE /\ calls' = Append(calls, c)
                /\ pc' = "await"
                /\ log' = Append(log, "call")
                /\ UNCHANGED result
    /\ UNCHANGED <<sessVars, req, DEEPSEEK_API_KEY, themeVars>>

\* lines 695-715: the call returns; parse and validate
SubstitutionReply(R) ==
    /\ req.endpoint = "substitution_start"
    /\ pc = "await"
    /\ \E r \in R :
        /\ data' = r
        /\ IF r.kind = "error"
           THEN /\ result' = Error(502)
                /\ pc' = "done"
                /\ log' = Append(log, "http_error")
                /\ UNCHANGED <<base_sentence, slots, labels_in_sentence>>
           ELSE \E p \in {SubstitutionParse(StripWs(r.text))} :
                \E valid \in {SubstitutionValid(FindLabels(p.base_sentence), p.slots,
                                                SlotCount(Diff(req.difficulty)))} :
                    /\ base_sentence' = p.base_sentence
                    /\ slots' = p.slots
                    /\ labels_in_sentence' = FindLabels(p.base_sentence)
                    /\ pc' = IF valid THEN "after_loop" ELSE "loop"
                    /\ log' = Append(log, IF valid THEN "valid" ELSE "invalid")
                    /\ UNCHANGED result
    /\ UNCHANGED <<sessVars, req, DEEPSEEK_API_KEY, calls, attempts, themeVars>>

\* lines 717-731: after the loop (left by break, or by attempts reaching 2)
SubstitutionReturn ==
    /\ req.endpoint = "substitution_start"
    /\ pc = "after_loop" \/ (pc = "loop" /\ ~LoopCondition(attempts))
    /\ \E slot_count \in {SlotCount(Diff(req.difficulty))} :
           IF NeedsFallback(base_sentence, slots, slot_count)
           THEN \E f \in {SubstitutionFallback(base_sentence, slots,
                                               labels_in_sentence, slot_count)} :
                    /\ base_sentence' = f.base_sentence
                    /\ slots' = f.slots
                    /\ result' = Ok(f)
                    /\ log' = Append(log, "fallback")
           ELSE /\ result' = Ok([base_sentence |-> base_sentence, slots |-> slots])
                /\ log' = Append(log, "accept")
                /\ UNCHANGED <<base_sentence, slots>>
    /\ pc' = "done"
    /\ UNCHANGED <<data, sessVars, req, DEEPSEEK_API_KEY, calls, attempts, labels_in_sentence, themeVars>>

-----------------------------------------------------------------------------
(* expansion_start *)

ScaffoldCount(diff) == DiffTable(diff, 2, 3, 4, 4, 3)

ExpansionPrompt(r) ==
    [endpoint |-> "expansion_start",
     scaffold_count |-> ScaffoldCount(Diff(r.difficulty)),
     diff |-> Diff(r.difficulty)]

ExpansionOptions == {<<"temperature", 65>>, <<"top_p", 90>>}

ExceptSeed == <<"I missed my train this morning.">>
ExceptScaffolds ==
    <<<<"Add when/where it happened">>, <<"Add a cause with because">>,
      <<"Add what you did next with so">>>>
EmptySeed == <<"I need to leave early today.">>
DefaultScaffolds ==
    <<<<"Add who you were with">>, <<"Add a reason with because">>,
      <<"Add a result with so">>, <<"Add feeling/tone with although">>>>

\* x[:n] raises unless x is a list or a string
Sliceable(x) == x.t \in {"list", "str"}

\* [str(item).strip() for item in items if str(item).strip()]
RECURSIVE StrippedNonEmpty(_)
StrippedNonEmpty(items) ==
    IF items = <<>> THEN <<>>
    ELSE LET s == StripWs(PyStr(Head(items)))
         IN  IF s # <<>> THEN <<s>> \o StrippedNonEmpty(Tail(items))
             ELSE StrippedNonEmpty(Tail(items))

ExpansionExcept(scaffold_count) ==
    [seed |-> ExceptSeed, scaffolds |-> Prefix(ExceptScaffolds, scaffold_count)]

\* lines 807-820: the try block after the call, and its except clause
ExpansionFields(seed, scaffolds, scaffold_count) ==
    IF seed.t # "str" \/ ~Sliceable(scaffolds) THEN ExpansionExcept(scaffold_count)
    ELSE [seed |-> StripWs(seed.v),
          scaffolds |-> StrippedNonEmpty(Prefix(IterItems(scaffolds), scaffold_count))]

\* lines 807-820, given what json.loads made of the text
ExpansionTry(parsed, scaffold_count) ==
    IF ~parsed.ok \/ ~IsDict(parsed.v) THEN ExpansionExcept(scaffold_count)
    ELSE ExpansionFields(Or(DictGet(parsed.v, <<"seed">>, None), JStr(<<>>)),
                         DictGet(parsed.v, <<"scaffolds">>, JList(<<>>)),
                         scaffold_count)

ExpansionParse(text, scaffold_count) == ExpansionTry(JsonLoads(text), scaffold_count)

\* variant: the scaffolds are returned without padding
NoPadding(defaults, scaffolds, scaffold_count) == scaffolds

\* variant: the defaults are appended without a look at the list
RECURSIVE PadScaffoldsBlind(_, _, _)
PadScaffoldsBlind(defaults, scaffolds, scaffold_count) ==
    IF defaults = <<>> \/ Len(scaffolds) >= scaffold_count THEN scaffolds
    ELSE PadScaffoldsBlind(Tail(defaults), Append(scaffolds, Head(defaults)),
                           scaffold_count)

\* lines 831-835
RECURSIVE PadScaffolds(_, _, _)
PadScaffolds(defaults, scaffolds, scaffold_count) ==
    IF defaults = <<>> \/ Len(scaffolds) >= scaffold_count THEN scaffolds
    ELSE IF \E i \in 1..Len(scaffolds) : scaffolds[i] = Head(defaults)
         THEN PadScaffolds(Tail(defaults), scaffolds, scaffold_count)
         ELSE PadScaffolds(Tail(defaults), Append(scaffolds, Head(defaults)),
                           scaffold_count)

\* lines 822-837
ExpansionFinish(p, scaffold_count) ==
    [seed |-> IF p.seed = <<>> THEN EmptySeed ELSE p.seed,
     scaffolds |-> IF Len(p.scaffolds) < scaffold_count
                   THEN PadScaffolds(DefaultScaffolds, p.scaffolds, scaffold_count)
                   ELSE p.scaffolds]

\* lines 799-806: the generation call is issued, always to the local adapter
ExpansionCall ==
    /\ req.endpoint = "expansion_start"
    /\ pc = "start"
    /\ calls' = Append(calls, QueryOllama(ExpansionPrompt(req), None,
                                          ExpansionOptions, None))
    /\ pc' = "await"
    /\ log' = Append(log, "call")
    /\ UNCHANGED <<data, sessVars, req, DEEPSEEK_API_KEY, result, subVars, themeVars>>

\* lines 807-837: the call returns or raises
ExpansionReply(R) ==
    /\ req.endpoint = "expansion_start"
    /\ pc = "await"
    /\ \E r \in R :
        LET scaffold_count == ScaffoldCount(Diff(req.difficulty))
            p == IF r.kind = "error" THEN ExpansionExcept(scaffold_count)
                 ELSE ExpansionParse(r.text, scaffold_count)
        IN  /\ result' = Ok(ExpansionFinish(p, scaffold_count))
            /\ log' = Append(log, IF r.kind = "error" THEN "http_error" ELSE "text")
            /\ data' = r
    /\ pc' = "done"
    /\ UNCHANGED <<sessVars, req, DEEPSEEK_API_KEY, calls, subVars, themeVars>>

-----------------------------------------------------------------------------
(* review_start *)

ReviewTone(diff) ==
    DiffTable(diff, "warm, short, concrete", "friendly, concise, everyday tone",
              "brisk, slightly challenging",
              "concise, probing, assumes background knowledge",
              "friendly, concise, everyday tone")

ReviewPrompt(r) == [endpoint |-> "review_start", tone |-> ReviewTone(Diff(r.difficulty))]

ReviewOptions == {<<"temperature", 60>>, <<"top_p", 90>>}

ExceptOpening == <<"Hey, can I ask your take on this topic?">>
EmptyOpening == <<"I'd like your thoughts on this.">>

\* lines 908-911: the try block after the call, and its except clause
ReviewOpening(o) == IF o.t # "str" THEN ExceptOpening ELSE StripWs(o.v)

ReviewTry(parsed) ==
    IF ~parsed.ok \/ ~IsDict(parsed.v) THEN ExceptOpening
    ELSE ReviewOpening(Or(DictGet(parsed.v, <<"opening">>, None), JStr(<<>>)))

ReviewParse(text) == ReviewTry(JsonLoads(text))

\* variant: the opening is returned as parsed, with no default
ReviewFinishAsParsed(opening) == [opening |-> opening]

\* lines 913-915
ReviewFinish(opening) == [opening |-> IF opening = <<>> THEN EmptyOpening ELSE opening]

\* lines 901-907 and 910-915: the call is issued, or _query_deepseek raises
\* and `except Exception` takes it
ReviewCall ==
    /\ req.endpoint = "review_start"
    /\ pc = "start"
    /\ \E c \in {QueryLlm(ReviewPrompt(req), req.model, ReviewOptions, None,
                         DEEPSEEK_API_KEY)} :
           IF c.adapter = "none"
           THEN /\ result' = Ok(ReviewFinish(ExceptOpening))
                /\ pc' = "done"
                /\ log' = Append(log, "config_error")
                /\ UNCHANGED calls
           ELSE /\ calls' = Append(calls, c)
                /\ pc' = "await"
                /\ log' = Append(log, "call")
                /\ UNCHANGED result
    /\ UNCHANGED <<data, sessVars, req, DEEPSEEK_API_KEY, subVars, themeVars>>

\* lines 908-915: the call returns or raises
ReviewReply(R) ==
    /\ req.endpoint = "review_start"
    /\ pc = "await"
    /\ \E r \in R :
        /\ result' = Ok(ReviewFinish(IF r.kind = "error" THEN ExceptOpening
                                     ELSE ReviewParse(r.text)))
        /\ log' = Append(log, IF r.kind = "error" THEN "http_error" ELSE "text")
        /\ data' = r
    /\ pc' = "done"
    /\ UNCHANGED <<sessVars, req, DEEPSEEK_API_KEY, calls, subVars, themeVars>>

-----------------------------------------------------------------------------
(* review_turn *)

\* str.capitalize() on the letters that occur in the explored roles
UpperChar(c) == CASE c = "a" -> "A" [] c = "u" -> "U" [] OTHER -> c
Capitalize(s) == IF s = <<>> THEN s ELSE <<UpperChar(Head(s))>> \o Lower(Tail(s))

RECURSIVE HistoryLines(_)
\* lines 927-929: one line per message that has content, joined by "\n"
HistoryLines(history) ==
    IF history = <<>> THEN <<>>
    ELSE IF Head(history).content = <<>> THEN HistoryLines(Tail(history))
    ELSE <<Capitalize(Head(history).role) \o <<":", " ">> \o Head(history).content>>
            \o HistoryLines(Tail(history))

StartTheDialog == <<"Agent", ":", " ", "(start the dialog)">>

\* variant: the prompt also tells which attempt this is
ReviewTurnPromptWithAttempt(r) ==
    [endpoint |-> "review_turn",
     history_lines |-> IF HistoryLines(r.history) # <<>>
                       THEN JoinLines(HistoryLines(r.history)) ELSE StartTheDialog,
     latest |-> StripWs(r.user_reply),
     attempt |-> r.attempt]

\* lines 927-943: the fixed teacher prompt, the history lines and the
\* latest reply
ReviewTurnPrompt(r) ==
    [endpoint |-> "review_turn",
     history_lines |-> IF HistoryLines(r.history) # <<>>
                       THEN JoinLines(HistoryLines(r.history)) ELSE StartTheDialog,
     latest |-> StripWs(r.user_reply)]

\* lines 945-946
ReviewTurnOptions(options) ==
    OptUpdate(options, {<<"temperature", 40>>, <<"top_p", 90>>})

ContinueReply == <<"Could you share a quick response so we can continue?">>

\* lines 948, 952-955
ReviewTurnText(text) == IF StripWs(text) # <<>> THEN StripWs(text) ELSE ContinueReply

\* lines 922-947: the call is issued, or _query_deepseek raises and
\* `except Exception` turns it into 502 (949-950)
ReviewTurnCall ==
    /\ req.endpoint = "review_turn"
    /\ pc = "start"
    /\ \E c \in {QueryLlm(ReviewTurnPrompt(req), req.model,
                         ReviewTurnOptions(req.options), None, DEEPSEEK_API_KEY)} :
           IF c.adapter = "none"
           THEN /\ result' = Error(502)
                /\ pc' = "done"
                /\ log' = Append(log, "config_error")
                /\ UNCHANGED calls
           ELSE /\ calls' = Append(calls, c)
                /\ pc' = "await"
                /\ log' = Append(log, "call")
                /\ UNCHANGED result
    /\ UNCHANGED <<data, sessVars, req, DEEPSEEK_API_KEY, subVars, themeVars>>

\* lines 947-957: the call returns or raises
ReviewTurnReply(R) ==
    /\ req.endpoint = "review_turn"
    /\ pc = "await"
    /\ \E r \in R :
        /\ data' = r
        /\ IF r.kind = "error"
           THEN /\ result' = Error(502)
                /\ log' = Append(log, "http_error")
           ELSE /\ result' = Ok([reply |-> ReviewTurnText(r.text)])
                /\ log' = Append(log, "text")
    /\ pc' = "done"
    /\ UNCHANGED <<sessVars, req, DEEPSEEK_API_KEY, calls, subVars, themeVars>>

-----------------------------------------------------------------------------
(* shadow_start *)

ShadowStyle(diff) ==
    DiffTable(diff, "simple, short, friendly, polite, 6-10 words",
              "everyday tone, concise, 8-12 words",
              "denser info, brisk delivery, 10-14 words",
              "fast-paced, confident, 12-16 words, natural collocations",
              "everyday tone, concise, 8-12 words")

ShadowPrompt(r) ==
    [endpoint |-> "shadow_start",
     difficulty_style |-> ShadowStyle(Diff(r.difficulty)),
     diff |-> Diff(r.difficulty)]

\* line.split(":", 1)[1].strip(), for a line that holds a colon
AfterColon(line) == StripWs(SubSeq(line, IndexFrom(line, ":", 1) + 1, Len(line)))

\* lines 622-625: one line of the response
ShadowLine(line, acc) ==
    [sentence |-> IF StartsWith(Lower(line), <<"sentence", ":">>)
                  THEN AfterColon(line) ELSE acc.sentence,
     cue |-> IF StartsWith(Lower(line), <<"cue", ":">>)
             THEN JStr(AfterColon(line)) ELSE acc.cue]

\* lines 621-625
RECURSIVE ShadowLines(_, _)
ShadowLines(lines, acc) ==
    IF lines = <<>> THEN acc
    ELSE ShadowLines(Tail(lines), ShadowLine(Head(lines), acc))

\* lines 627-629: resp_text.split("Cue:", 1), "Cue:" found at i
ShadowSplit(resp_text, i) ==
    [sentence |-> StripWs(SubSeq(resp_text, 1, i - 1)),
     cue |-> JStr(StripWs(SubSeq(resp_text, i + 2, Len(resp_text))))]

\* lines 617-630
ShadowFormat(resp_text) ==
    IF Contains(resp_text, <<"Sentence", ":">>)
    THEN ShadowLines(SplitLines(resp_text), [sentence |-> resp_text, cue |-> None])
    ELSE IF Contains(resp_text, <<"Cue", ":">>)
    THEN ShadowSplit(resp_text, IndexOfSub(resp_text, <<"Cue", ":">>))
    ELSE [sentence |-> resp_text, cue |-> None]

\* lines 616-630
ShadowParse(text) == ShadowFormat(StripWs(text))

\* lines 596-614: the call is issued, or _query_deepseek raises
ShadowCall ==
    /\ req.endpoint = "shadow_start"
    /\ pc = "start"
    /\ \E c \in {QueryLlm(ShadowPrompt(req), req.model, {}, None, DEEPSEEK_API_KEY)} :
           IF c.adapter = "none"
           THEN /\ result' = Error(c.raised)
                /\ pc' = "done"
                /\ log' = Append(log, "config_error")
                /\ UNCHANGED calls
           ELSE /\ calls' = Append(calls, c)
                /\ pc' = "await"
                /\ log' = Append(log, "call")
                /\ UNCHANGED result
    /\ UNCHANGED <<data, sessVars, req, DEEPSEEK_API_KEY, subVars, themeVars>>

\* lines 613-630: the call returns or raises
ShadowReply(R) ==
    /\ req.endpoint = "shadow_start"
    /\ pc = "await"
    /\ \E r \in R :
        /\ data' = r
        /\ IF r.kind = "error"
           THEN /\ result' = Error(502)
                /\ log' = Append(log, "http_error")
           ELSE /\ result' = Ok(ShadowParse(r.text))
                /\ log' = Append(log, "text")
    /\ pc' = "done"
    /\ UNCHANGED <<sessVars, req, DEEPSEEK_API_KEY, calls, subVars, themeVars>>

-----------------------------------------------------------------------------
(* resolve_theme *)

EN == <<"e", "n">>
ZH == <<"z", "h">>

\* lines 491-493
Language(r) == IF Lower(r.language) \in {EN, ZH} THEN Lower(r.language) ELSE EN

IntentPrompt(r) == [endpoint |-> "resolve_theme", step |-> "intent", zh |-> Language(r) = ZH]
IntentOptions == {<<"temperature", 30>>, <<"top_p", 90>>}

AnchorPrompt(r, intent) ==
    [endpoint |-> "resolve_theme", step |-> "anchors", theme |-> intent, count |-> r.count]
AnchorOptions == {<<"temperature", 80>>, <<"top_p", 90>>}

\* lines 539-543: lines that open with a fence marker are dropped when the
\* text itself opens with one
RECURSIVE DropFenceLines(_)
DropFenceLines(lines) ==
    IF lines = <<>> THEN <<>>
    ELSE IF StartsWith(StripWs(Head(lines)), <<FENCE>>) THEN DropFenceLines(Tail(lines))
    ELSE <<Head(lines)>> \o DropFenceLines(Tail(lines))

StripFences(raw_text) ==
    IF StartsWith(StripWs(raw_text), <<FENCE>>)
    THEN JoinLines(DropFenceLines(SplitLines(raw_text)))
    ELSE raw_text

\* lines 549-555: the substring from the first "{" to the last "}"
Braced(raw_text, start, end) ==
    IF start # 0 /\ end # 0 /\ end > start
    THEN JsonLoads(SubSeq(raw_text, start, end))
    ELSE Failed

\* a parse result, or {} where json.loads raised
OrEmpty(parsed) == IF parsed.ok THEN parsed.v ELSE JObj(<<>>)

FirstOk(raw_text, direct) ==
    IF direct.ok THEN direct.v
    ELSE OrEmpty(Braced(raw_text, IndexFrom(raw_text, "{", 1),
                        LastIndexFrom(raw_text, "}", Len(raw_text))))

\* lines 544-555: direct parse, then the substring from the first "{" to
\* the last "}", then {}
ExtractJson(raw_text) == FirstOk(raw_text, JsonLoads(raw_text))

\* variant: no cue is substituted
NoFallbackCue(difficulty) == <<>>

\* lines 563-569
FallbackCue(difficulty) ==
    DiffTable(difficulty, <<"Delivery: slow and polite">>, <<"Delivery: clear and upbeat">>,
              <<"Delivery: brisk and concise">>, <<"Delivery: confident and fast">>,
              <<"Delivery: clear and polite">>)

\* lines 562-577: the card of an item with a usable phrase
PhraseCard(item, phrase, cue, difficulty) ==
    [phrase |-> phrase,
     cue |-> IF cue = <<>> \/ Contains(Lower(cue), <<"context", " ", "hint">>)
                \/ Contains(Lower(cue), <<"hint">>)
             THEN FallbackCue(difficulty) ELSE cue,
     difficulty |-> DictGet(item, <<"difficulty">>, None)]

RECURSIVE CardsLoop(_, _)

\* lines 557-577 for one item that is a dict: p, c, d are
\* item.get(...) or "" for its phrase, cue and difficulty
CardsItem(items, cards, p, c, d) ==
    IF p.t # "str" THEN [raised |-> TRUE, cards |-> cards]
    ELSE IF StripWs(p.v) = <<>> \/ Contains(Lower(StripWs(p.v)), <<"phrase">>)
    THEN CardsLoop(Tail(items), cards)
    ELSE IF c.t # "str" \/ d.t # "str" THEN [raised |-> TRUE, cards |-> cards]
    ELSE CardsLoop(Tail(items),
             Append(cards, PhraseCard(Head(items), StripWs(p.v), StripWs(c.v),
                                      Lower(StripWs(d.v)))))

\* lines 556-577: the loop over the anchors; raised where the body raises
CardsLoop(items, cards) ==
    IF items = <<>> THEN [raised |-> FALSE, cards |-> cards]
    ELSE IF ~IsDict(Head(items)) THEN [raised |-> TRUE, cards |-> cards]
    ELSE CardsItem(items, cards,
             Or(DictGet(Head(items), <<"phrase">>, None), JStr(<<>>)),
             Or(DictGet(Head(items), <<"cue">>, None), JStr(<<>>)),
             Or(DictGet(Head(items), <<"difficulty">>, None), JStr(<<>>)))

\* variant: every anchor of the payload is taken
AnchorsUncut(anchors, count) ==
    IF ~Sliceable(anchors) THEN [raised |-> TRUE, cards |-> <<>>]
    ELSE CardsLoop(IterItems(anchors), <<>>)

\* line 556: parsed.get("anchors", [])[: req.count]
Anchors(anchors, count) ==
    IF ~Sliceable(anchors) THEN [raised |-> TRUE, cards |-> <<>>]
    ELSE CardsLoop(Prefix(IterItems(anchors), count), <<>>)

ThemeCards(parsed, count) ==
    IF ~IsDict(parsed) THEN [raised |-> TRUE, cards |-> <<>>]
    ELSE Anchors(DictGet(parsed, <<"anchors">>, JList(<<>>)), count)

\* lines 537-555: the structure extracted from the anchor response
ThemeExtract(text) ==
    ExtractJson(StripFences(IF text # <<>> THEN text ELSE <<"{", "}">>))

\* lines 537-577, after the anchor call has returned
ThemeParse(text, count) == ThemeCards(ThemeExtract(text), count)

\* lines 507-512: the intent call is issued, or _query_deepseek raises
ThemeIntentCall ==
    /\ req.endpoint = "resolve_theme"
    /\ pc = "start"
    /\ \E c \in {QueryLlm(IntentPrompt(req), req.model, IntentOptions, None,
                         DEEPSEEK_API_KEY)} :
           IF c.adapter = "none"
           THEN /\ result' = Error(c.raised)
                /\ pc' = "done"
                /\ log' = Append(log, "config_error")
                /\ UNCHANGED calls
           ELSE /\ calls' = Append(calls, c)
                /\ pc' = "await"
                /\ log' = Append(log, "call")
                /\ UNCHANGED result
    /\ UNCHANGED <<data, sessVars, req, DEEPSEEK_API_KEY, subVars, themeVars>>

\* lines 511-514: the intent call returns or raises
ThemeIntentReply(R) ==
    /\ req.endpoint = "resolve_theme"
    /\ pc = "await"
    /\ \E r \in R :
        IF r.kind = "error"
        THEN /\ result' = Error(502)
             /\ pc' = "done"
             /\ log' = Append(log, "http_error")
             /\ UNCHANGED intent_text
        ELSE /\ intent_text' = r.text
             /\ pc' = "anchors"
             /\ log' = Append(log, "text")
             /\ UNCHANGED result
    /\ UNCHANGED <<data, sessVars, req, DEEPSEEK_API_KEY, calls, subVars, anchor_text>>

\* lines 516-535: the anchor call is issued, or _query_deepseek raises
\* (`except Exception: raise` lets every exception leave the handler)
ThemeAnchorCall ==
    /\ req.endpoint = "resolve_theme"
    /\ pc = "anchors"
    /\ \E c \in {QueryLlm(AnchorPrompt(req, intent_text), req.model, AnchorOptions,
                         None, DEEPSEEK_API_KEY)} :
           IF c.adapter = "none"
           THEN /\ result' = Error(c.raised)
                /\ pc' = "done"
                /\ log' = Append(log, "config_error")
                /\ UNCHANGED calls
           ELSE /\ calls' = Append(calls, c)
                /\ pc' = "await_anchors"
                /\ log' = Append(log, "call")
                /\ UNCHANGED result
    /\ UNCHANGED <<data, sessVars, req, DEEPSEEK_API_KEY, subVars, themeVars>>

\* lines 536-583: the anchor call returns or raises; an exception that
\* leaves the handler reaches the caller as status 500
ThemeAnchorReply(R) ==
    /\ req.endpoint = "resolve_theme"
    /\ pc = "await_anchors"
    /\ \E r \in R :
        IF r.kind = "error"
        THEN /\ result' = Error(500)
             /\ log' = Append(log, "http_error")
             /\ UNCHANGED anchor_text
        ELSE \E p \in {ThemeParse(r.text, req.count)} :
                 /\ anchor_text' = r.text
                 /\ IF p.raised
                    THEN /\ result' = Error(500)
                         /\ log' = Append(log, "raised")
                    ELSE /\ result' = Ok([language |-> Language(req),
                                          phrase_cards |-> p.cards,
                                          intent |-> intent_text])
                         /\ log' = Append(log, "text")
    /\ pc' = "done"
    /\ UNCHANGED <<data, sessVars, req, DEEPSEEK_API_KEY, calls, subVars, intent_text>>


-----------------------------------------------------------------------------
(* The session store: create_session, get_session, update_session,
   session_chat *)

FLUENCY == "fluency"
REVIEW == "review"
Modes == {FLUENCY, REVIEW}
ModeInstructions(mode) ==
    IF mode = FLUENCY THEN "You are a friendly oral English coach focused on fluency."
    ELSE IF mode = REVIEW THEN "You are a meticulous reviewer."
    ELSE ""

\* the identifiers uuid4().hex can give, and callers can ask for
SessionIds == {"s1", "s2"}
UserIds == {None}
SessionPrompts == {"p1", "p2"}
SessionModels == {None, JStr(DEEPSEEK_MODEL)}
ContextTokens == {None, JList(<<>>), JList(<<JNum(1)>>), JList(<<JNum(2)>>)}
\* what /api/generate answers to a session chat
SessionReplies ==
    {HttpError} \cup {[kind |-> "data", response |-> "r", context |-> c] : c \in ContextTokens}

SessionInfo(session_id, mode, turns) ==
    [session_id |-> session_id, mode |-> mode, turns |-> turns]

Answers(op, session_id) == [op |-> op, session_id |-> session_id]

\* variant: an unknown session is answered as if nothing had been asked
NotFoundSilent == Ok(None)

\* line 427: _get_session raises for an identifier the store does not hold
NotFound == Error(404)

\* variant: the session starts over when its mode is set
SetModeAfresh(session, mode) ==
    [session EXCEPT !.mode = mode, !.history = <<>>, !.context = None]

\* line 454
SetMode(session, mode) == [session EXCEPT !.mode = mode]

\* variant: a new session starts with a context token
NewSessionWithToken(user_id, mode) ==
    [user_id |-> user_id, mode |-> mode, history |-> <<>>,
     context |-> JList(<<JNum(1)>>)]

\* lines 434-439: the record create_session stores
NewSession(user_id, mode) ==
    [user_id |-> user_id, mode |-> mode, history |-> <<>>, context |-> None]

\* lines 431-440; uuid4 gives an identifier no session has
CreateSession ==
    /\ req.endpoint = "sessions"
    /\ \E session_id \in SessionIds \ DOMAIN SESSIONS, user_id \in UserIds, mode \in Modes :
        /\ SESSIONS' = (session_id :> NewSession(user_id, mode)) @@ SESSIONS
        /\ result' = Ok(SessionInfo(session_id, mode, 0))
        /\ answered' = Answers("create", session_id)
        /\ completed' = (session_id :> 0) @@ completed
        /\ last_mode' = (session_id :> mode) @@ last_mode
        /\ recorded' = (session_id :> <<>>) @@ recorded
        /\ data' = None
    /\ UNCHANGED <<req, pc, DEEPSEEK_API_KEY, calls, subVars, themeVars, log,
                   inflight, next_rid>>

\* lines 443-448, with _get_session (424-428)
GetSession ==
    /\ req.endpoint = "sessions"
    /\ \E session_id \in SessionIds :
        /\ result' = IF session_id \notin DOMAIN SESSIONS THEN NotFound
                     ELSE Ok(SessionInfo(session_id, SESSIONS[session_id].mode,
                                         Len(SESSIONS[session_id].history)))
        /\ answered' = Answers("get", session_id)
        /\ data' = None
    /\ UNCHANGED <<req, pc, DEEPSEEK_API_KEY, calls, subVars, themeVars, log,
                   SESSIONS, inflight, next_rid, completed, last_mode, recorded>>

\* lines 451-457
UpdateSession ==
    /\ req.endpoint = "sessions"
    /\ \E session_id \in SessionIds, mode \in Modes :
        /\ answered' = Answers("update", session_id)
        /\ IF session_id \notin DOMAIN SESSIONS
           THEN /\ result' = NotFound
                /\ UNCHANGED <<SESSIONS, last_mode>>
           ELSE /\ SESSIONS' = [SESSIONS EXCEPT ![session_id] = SetMode(@, mode)]
                /\ result' = Ok(SessionInfo(session_id, mode,
                                            Len(SESSIONS[session_id].history)))
                /\ last_mode' = [last_mode EXCEPT ![session_id] = mode]
        /\ data' = None
    /\ UNCHANGED <<req, pc, DEEPSEEK_API_KEY, calls, subVars, themeVars, log,
                   inflight, next_rid, completed, recorded>>

\* lines 462-470: the session is looked up, the prompt composed and the
\* backend call issued with the session's context token
SessionChatCall ==
    /\ req.endpoint = "sessions"
    /\ next_rid <= MaxRequests
    /\ \E session_id \in SessionIds, prompt \in SessionPrompts, model \in SessionModels :
        IF session_id \notin DOMAIN SESSIONS
        THEN /\ result' = NotFound
             /\ answered' = Answers("chat", session_id)
             /\ data' = None
             /\ UNCHANGED <<inflight, next_rid>>
        ELSE LET session == SESSIONS[session_id]
                 mode == session.mode
                 composed_prompt == <<ModeInstructions(mode), prompt>>
             IN  /\ inflight' = inflight \cup
                        {[rid |-> next_rid, session_id |-> session_id, mode |-> mode,
                          prompt |-> prompt,
                          call |-> QueryOllama(composed_prompt, model, {},
                                               session.context)]}
                 /\ next_rid' = next_rid + 1
                 /\ UNCHANGED <<result, answered, data>>
    /\ UNCHANGED <<req, pc, DEEPSEEK_API_KEY, calls, subVars, themeVars, log,
                   SESSIONS, completed, last_mode, recorded>>

\* variant: the turn replaces the history instead of extending it
RecordTurnOverwrite(session, prompt, response_text, context) ==
    [session EXCEPT !.context = context,
                    !.history = <<[prompt |-> prompt, response |-> response_text]>>]

\* lines 474-476: the turn is recorded in the session
RecordTurn(session, prompt, response_text, context) ==
    [session EXCEPT !.context = context,
                    !.history = Append(@, [prompt |-> prompt,
                                           response |-> response_text])]

\* variant: a chat whose backend call failed takes its session with it
ChatFailedDrops(sessions, session_id) ==
    [s \in DOMAIN sessions \ {session_id} |-> sessions[s]]

\* variant: a chat whose backend call failed resets the context token
ChatFailedForgets(sessions, session_id) ==
    [sessions EXCEPT ![session_id].context = None]

\* lines 471-472: the raise leaves the store as it is
ChatFailed(sessions, session_id) == sessions

\* lines 471-483: the backend call of one waiting chat returns or raises
SessionChatReply ==
    /\ req.endpoint = "sessions"
    /\ \E w \in inflight, r \in SessionReplies :
        /\ inflight' = inflight \ {w}
        /\ answered' = Answers("chat", w.session_id)
        /\ data' = r
        /\ IF r.kind = "error"
           THEN /\ result' = BadGateway
                /\ SESSIONS' = ChatFailed(SESSIONS, w.session_id)
                /\ UNCHANGED <<completed, recorded>>
           ELSE /\ SESSIONS' = [SESSIONS EXCEPT ![w.session_id] =
                                   RecordTurn(@, w.prompt, r.response, r.context)]
                /\ result' = Ok([session_id |-> w.session_id, mode |-> w.mode,
                                 response |-> r.response,
                                 turns |-> Len(SESSIONS'[w.session_id].history)])
                /\ completed' = [completed EXCEPT ![w.session_id] = @ + 1]
                /\ recorded' = [recorded EXCEPT ![w.session_id] =
                                   Append(@, [rid |-> w.rid,
                                              sent |-> w.call.context,
                                              stored |-> r.context])]
    /\ UNCHANGED <<req, pc, DEEPSEEK_API_KEY, calls, subVars, themeVars, log,
                   next_rid, last_mode>>

-----------------------------------------------------------------------------
(* Backend texts explored for expansion_start, review_start, shadow_start
   and resolve_theme *)

ExpansionPayload(seed, scaffolds) ==
    JObj(<<Member("seed", seed), Member("scaffolds", scaffolds)>>)

\* a seed that is missing, blank, present, or a number
SeedValues == {JNull, JStr(<<" ">>), JStr(<<"My", " ", "seed">>), JNum(5)}
\* a scaffold, a blank one, and one that the default pool also holds
ScaffoldValues == {JStr(<<"s">>), JStr(<<" ">>), JStr(<<"Add who you were with">>)}

ExpansionPayloadTexts ==
    {Serialize(ExpansionPayload(s, JList(sc))) :
        s \in SeedValues, sc \in SeqsUpTo(ScaffoldValues, MaxScaffolds)}

ExpansionOddTexts ==
    {<<>>,
     <<"no", " ", "json">>,
     Serialize(JList(<<>>)),
     Serialize(JObj(<<>>)),
     Serialize(JObj(<<Member("seed", JStr(<<"My", " ", "seed">>))>>)),
     Serialize(ExpansionPayload(JStr(<<"My", " ", "seed">>), JNull)),
     Serialize(ExpansionPayload(JStr(<<"My", " ", "seed">>), JNum(5))),
     Serialize(ExpansionPayload(JStr(<<"My", " ", "seed">>), JStr(<<"a", " ", "b">>))),
     Serialize(ExpansionPayload(JStr(<<"My", " ", "seed">>),
                                JObj(<<Member("a", JNum(1))>>))),
     Serialize(ExpansionPayload(JStr(<<>>),
                                JList(<<JNum(3), JNull, JList(<<>>), JStr(<<"s">>)>>))),
     <<FENCE, "json", NL>>
         \o Serialize(ExpansionPayload(JStr(<<"My", " ", "seed">>), JList(<<>>)))
         \o <<NL, FENCE>>}

ExpansionTexts == ExpansionPayloadTexts \cup ExpansionOddTexts

ExpansionBasicTexts ==
    {<<>>, <<"no", " ", "json">>,
     Serialize(ExpansionPayload(JStr(<<"My", " ", "seed">>),
                                JList(<<JStr(<<"s">>), JStr(<<"t">>)>>)))}

ReviewPayload(opening) == JObj(<<Member("opening", opening)>>)

ReviewTexts ==
    {<<>>,
     <<"no", " ", "json">>,
     Serialize(JList(<<>>)),
     Serialize(JNum(5)),
     Serialize(JObj(<<>>)),
     Serialize(ReviewPayload(JNull)),
     Serialize(ReviewPayload(JStr(<<>>))),
     Serialize(ReviewPayload(JStr(<<" ">>))),
     Serialize(ReviewPayload(JStr(<<" ", "Hi", " ", "there", " ">>))),
     Serialize(ReviewPayload(JNum(5))),
     Serialize(ReviewPayload(JList(<<JStr(<<"Hi">>)>>))),
     <<FENCE, "json", NL>> \o Serialize(ReviewPayload(JStr(<<"Hi">>))) \o <<NL, FENCE>>,
     <<"Sure", " ">> \o Serialize(ReviewPayload(JStr(<<"Hi">>)))}

ReviewBasicTexts ==
    {<<>>, <<"no", " ", "json">>, Serialize(ReviewPayload(JStr(<<"Hi">>)))}

ShadowTexts ==
    {<<>>,
     <<"Hi", " ", "there">>,
     <<"Sentence", ":", " ", "Hi", " ", "there", NL, "Cue", ":", " ", "slow">>,
     <<"Sentence", ":", " ", "Hi", " ", "there">>,
     <<"Hi", " ", "there", NL, "Cue", ":", " ", "slow">>,
     <<"Hi", " ", "there", " ", "Cue", ":", " ", "slow">>,
     <<"Cue", ":", " ", "slow">>,
     <<"sentence", ":", " ", "Hi", NL, "cue", ":", " ", "slow">>,
     <<" ", "Sentence", ":", " ", "Hi", NL, " ", "Cue", ":", " ", "slow", NL>>,
     <<"Here", ":", NL, "SENTENCE", ":", " ", "Hi", NL, "Sentence", ":", NL, "CUE", ":">>}

Card(phrase, cue, difficulty) ==
    JObj(<<Member("difficulty", difficulty), Member("phrase", phrase),
           Member("cue", cue)>>)

CALM == JStr(<<"calm", " ", "and", " ", "clear">>)

\* cards with a phrase that is not empty: a usual one, one whose cue is
\* generic, one without cue and difficulty, one whose phrase holds the word
\* "phrase", one whose phrase is blank
PhrasedCards ==
    {Card(JStr(<<"Good", " ", "day">>), CALM, JStr(EASY)),
     Card(JStr(<<"See", " ", "you">>), JStr(<<"context", " ", "Hint">>),
          JStr(<<"H", "A", "R", "D">>)),
     JObj(<<Member("phrase", JStr(<<" ", "Nice", " ">>))>>),
     Card(JStr(<<"Key", " ", "Phrase">>), CALM, JStr(MEDIUM)),
     Card(JStr(<<" ">>), CALM, JStr(EXPERT))}

AnchorsPayload(anchors) == JObj(<<Member("anchors", anchors)>>)

ThemePayloadTexts ==
    {Serialize(AnchorsPayload(JList(cs))) : cs \in SeqsUpTo(PhrasedCards, MaxCards)}

GoodCard == Card(JStr(<<"Good", " ", "day">>), CALM, JStr(EASY))

\* malformed texts: empty, no JSON, JSON that is no object, anchors that is
\* no array, anchors entries that are no objects or hold wrongly typed
\* fields, and payloads inside fences or prose
ThemeOddTexts ==
    {<<>>,
     <<"no", " ", "json">>,
     <<"{", "oops", "}">>,
     <<"}", " ", "{">>,
     Serialize(JList(<<JNum(1), JNum(2)>>)),
     Serialize(JNum(5)),
     Serialize(JStr(<<"anchors">>)),
     Serialize(JNull),
     Serialize(JObj(<<>>)),
     Serialize(AnchorsPayload(JNull)),
     Serialize(AnchorsPayload(JNum(5))),
     Serialize(AnchorsPayload(JStr(<<>>))),
     Serialize(AnchorsPayload(JStr(<<"a">>))),
     Serialize(AnchorsPayload(JObj(<<>>))),
     Serialize(AnchorsPayload(JList(<<GoodCard, JNum(5)>>))),
     Serialize(AnchorsPayload(JList(<<JStr(<<"Good", " ", "day">>)>>))),
     Serialize(AnchorsPayload(JList(<<JNull>>))),
     Serialize(AnchorsPayload(JList(<<JObj(<<>>), GoodCard>>))),
     Serialize(AnchorsPayload(JList(<<JObj(<<Member("phrase", JNum(5))>>)>>))),
     Serialize(AnchorsPayload(JList(<<Card(JStr(<<"Good", " ", "day">>), JNum(5),
                                           JStr(EASY))>>))),
     Serialize(AnchorsPayload(JList(<<Card(JStr(<<"Good", " ", "day">>), CALM,
                                           JNum(5))>>))),
     Serialize(AnchorsPayload(JList(<<Card(JNull, JNull, JNull), GoodCard>>))),
     <<FENCE, "json", NL>> \o Serialize(AnchorsPayload(JList(<<GoodCard>>)))
         \o <<NL, FENCE>>,
     <<"Sure", "!", " ">> \o Serialize(AnchorsPayload(JList(<<GoodCard>>)))
         \o <<" ", "Enjoy", ".">>,
     <<"Sure", "!", " ">> \o Serialize(JList(<<GoodCard>>)),
     Serialize(JList(<<AnchorsPayload(JList(<<GoodCard>>))>>))}

ThemeTexts == ThemePayloadTexts \cup ThemeOddTexts

ThemeBasicTexts ==
    {<<>>, <<"no", " ", "json">>, Serialize(AnchorsPayload(JList(<<GoodCard, GoodCard>>)))}

IntentTexts == {<<"intent">>}

-----------------------------------------------------------------------------
(* The generation client on its own: _query_llm called with any model hint,
   sampling options and context token, and the result dict it returns *)

\* line 392
DeepseekChoice(body) ==
    Or(DictGet(body, <<"choices">>, None), JList(<<JObj(<<>>)>>)).v[1]

\* line 393
DeepseekContent(choice) ==
    DictGet(DictGet(choice, <<"message">>, JObj(<<>>)), <<"content">>, JStr(<<>>))

\* variant: the remote result hands on the context field of the reply
DeepseekResultWithContext(body) ==
    JObj(<<Member("response", DeepseekContent(DeepseekChoice(body))),
           Member("context", DictGet(body, <<"context">>, None))>>)

\* lines 391-394: the result dict of _query_deepseek
DeepseekResult(body) ==
    JObj(<<Member("response", DeepseekContent(DeepseekChoice(body))),
           Member("context", None)>>)

\* line 374: _query_ollama returns the reply as it is
OllamaResult(body) == body

ClientPrompts == {<<"Say", " ", "hi">>}
ClientOptions == {{}, {<<"temperature", 50>>}}

ClientRequests ==
    {[endpoint |-> "query_llm", prompt |-> p, model |-> m, options |-> o,
      context |-> c] :
        p \in ClientPrompts, m \in ModelHints, o \in ClientOptions,
        c \in ContextTokens}

Message(content) ==
    JObj(<<Member("message", JObj(<<Member("content", JStr(content))>>))>>)

\* bodies of /v1/chat/completions
DeepseekBodies ==
    {JObj(<<Member("choices", JList(<<Message(<<"hi">>)>>))>>),
     JObj(<<Member("choices", JList(<<Message(<<"hi">>)>>)),
            Member("context", JList(<<JNum(1)>>))>>),
     JObj(<<Member("choices", JList(<<>>))>>),
     JObj(<<>>)}

\* bodies of /api/generate
OllamaBodies ==
    {JObj(<<Member("response", JStr(<<"hi">>)), Member("context", c)>>) :
        c \in {JNull, JList(<<JNum(1)>>), JList(<<JNum(2)>>)}}
    \cup {JObj(<<Member("response", JStr(<<"hi">>))>>)}

\* lines 403-408, up to the post of the chosen adapter (372, 389) or the
\* raise of line 379
ClientCall ==
    /\ req.endpoint = "query_llm"
    /\ pc = "start"
    /\ \E c \in {QueryLlm(req.prompt, req.model, req.options, req.context,
                         DEEPSEEK_API_KEY)} :
           IF c.adapter = "none"
           THEN /\ result' = Error(c.raised)
                /\ pc' = "done"
                /\ log' = Append(log, "config_error")
                /\ UNCHANGED calls
           ELSE /\ calls' = Append(calls, c)
                /\ pc' = "await"
                /\ log' = Append(log, "call")
                /\ UNCHANGED result
    /\ UNCHANGED <<data, sessVars, req, DEEPSEEK_API_KEY, subVars, themeVars>>

\* variant: the client starts over when its call has failed
RaisedRetries == "start"

\* lines 372-373 and 389-390: the exception of post or raise_for_status
\* leaves the adapter and the dispatching client
Raised == "done"

\* lines 373-374 and 390-394: raise_for_status raises, or the adapter
\* returns its result dict
ClientReply ==
    /\ req.endpoint = "query_llm"
    /\ pc = "await"
    /\ \/ /\ result' = Error(502)
          /\ log' = Append(log, "http_error")
          /\ pc' = Raised
          /\ UNCHANGED data
       \/ /\ calls[Len(calls)].adapter = "ollama"
          /\ \E body \in OllamaBodies :
                /\ data' = body
                /\ result' = Ok(OllamaResult(body))
          /\ log' = Append(log, "data")
          /\ pc' = "done"
       \/ /\ calls[Len(calls)].adapter = "deepseek"
          /\ \E body \in DeepseekBodies :
                /\ data' = body
                /\ result' = Ok(DeepseekResult(body))
          /\ log' = Append(log, "data")
          /\ pc' = "done"
    /\ UNCHANGED <<sessVars, req, DEEPSEEK_API_KEY, calls, subVars, themeVars>>

-----------------------------------------------------------------------------
(* Drill feedback: shadow_feedback, substitution_feedback and
   expansion_feedback compare a transcript with the drill and ask the local
   backend for feedback *)

\* lines 741-743, 847-849
TargetLanguage(r) ==
    IF Lower(r.target_language) \in {EN, ZH} THEN Lower(r.target_language) ELSE EN

\* ", ".join(options)
RECURSIVE CommaJoin(_)
CommaJoin(ss) ==
    IF ss = <<>> THEN <<>>
    ELSE IF Len(ss) = 1 THEN ss[1]
    ELSE ss[1] \o <<",", " ">> \o CommaJoin(Tail(ss))

\* lines 744-746
RECURSIVE SlotLines(_)
SlotLines(ss) ==
    IF ss = <<>> THEN <<>>
    ELSE <<<<"-", " ">> \o Head(ss).label \o <<":", " ">> \o CommaJoin(Head(ss).options)>>
            \o SlotLines(Tail(ss))

\* line 850
RECURSIVE ScaffoldLines(_)
ScaffoldLines(ss) ==
    IF ss = <<>> THEN <<>> ELSE <<<<"-", " ">> \o Head(ss)>> \o ScaffoldLines(Tail(ss))

\* lines 639-644
ShadowFeedbackPrompt(r) ==
    [endpoint |-> "shadow_feedback", reference |-> r.reference,
     transcript |-> r.transcript]

\* lines 747-762
SubstitutionFeedbackPrompt(r) ==
    [endpoint |-> "substitution_feedback", zh |-> TargetLanguage(r) = ZH,
     base_sentence |-> r.base_sentence, transcript |-> r.transcript,
     slot_lines |-> JoinLines(SlotLines(r.slots))]

\* lines 851-865
ExpansionFeedbackPrompt(r) ==
    [endpoint |-> "expansion_feedback", zh |-> TargetLanguage(r) = ZH,
     seed |-> r.seed, transcript |-> r.transcript,
     scaffold_lines |-> JoinLines(ScaffoldLines(r.scaffolds))]

\* lines 646-648: opts, the options of the request under the fixed
\* temperature and top_p of shadow_feedback
ShadowFeedbackOpts(options) ==
    OptUpdate(options, {<<"temperature", 20>>, <<"top_p", 90>>})

\* line 649: the call is given req.options, not the opts of lines 646-648
ShadowFeedbackOptions(options) == options

\* lines 764-766
SubstitutionFeedbackOptions(options) ==
    OptUpdate(options, {<<"temperature", 30>>, <<"top_p", 90>>})

\* lines 867-869
ExpansionFeedbackOptions(options) ==
    OptUpdate(options, {<<"temperature", 35>>, <<"top_p", 90>>})

\* the bullet character U+2022, as one atom
BULLET == "(bullet)"

\* line.strip of the two characters "-" and BULLET
RECURSIVE StripBullets(_)
StripBullets(s) ==
    IF s # <<>> /\ Head(s) \in {"-", BULLET} THEN StripBullets(Tail(s))
    ELSE IF s # <<>> /\ s[Len(s)] \in {"-", BULLET}
    THEN StripBullets(SubSeq(s, 1, Len(s) - 1))
    ELSE s

\* len(clean.split()): the runs of atoms that are not white space
WordCount(s) ==
    Cardinality({i \in 1..Len(s) : ~IsSpace(s[i]) /\ (i = 1 \/ IsSpace(s[i - 1]))})

\* lines 873-880: the last line of at least six words, None if there is none
RECURSIVE ImprovedVariant(_)
ImprovedVariant(lines) ==
    IF lines = <<>> THEN None
    ELSE IF WordCount(StripWs(StripBullets(lines[Len(lines)]))) >= 6
    THEN JStr(StripWs(StripBullets(lines[Len(lines)])))
    ELSE ImprovedVariant(SubSeq(lines, 1, Len(lines) - 1))

\* lines 652-653, 771-772, 872-881: the answer made of the response text
FeedbackResult(endpoint, text) ==
    CASE endpoint = "shadow_feedback" -> [feedback |-> StripWs(text)]
      [] endpoint = "substitution_feedback" ->
            [feedback |-> StripWs(text), next_variant |-> None]
      [] endpoint = "expansion_feedback" ->
            [feedback |-> StripWs(text),
             improved_variant |-> ImprovedVariant(SplitLines(StripWs(text)))]

\* lines 638-649
ShadowFeedbackCall ==
    /\ req.endpoint = "shadow_feedback"
    /\ pc = "start"
    /\ calls' = Append(calls, QueryOllama(ShadowFeedbackPrompt(req), None,
                                          ShadowFeedbackOptions(req.options), None))
    /\ pc' = "await"
    /\ log' = Append(log, "call")
    /\ UNCHANGED <<data, sessVars, req, DEEPSEEK_API_KEY, result, subVars, themeVars>>

\* lines 741-766
SubstitutionFeedbackCall ==
    /\ req.endpoint = "substitution_feedback"
    /\ pc = "start"
    /\ calls' = Append(calls, QueryOllama(SubstitutionFeedbackPrompt(req), None,
                                          SubstitutionFeedbackOptions(req.options),
                                          None))
    /\ pc' = "await"
    /\ log' = Append(log, "call")
    /\ UNCHANGED <<data, sessVars, req, DEEPSEEK_API_KEY, result, subVars, themeVars>>

\* lines 847-869
ExpansionFeedbackCall ==
    /\ req.endpoint = "expansion_feedback"
    /\ pc = "start"
    /\ calls' = Append(calls, QueryOllama(ExpansionFeedbackPrompt(req), None,
                                          ExpansionFeedbackOptions(req.options), None))
    /\ pc' = "await"
    /\ log' = Append(log, "call")
    /\ UNCHANGED <<data, sessVars, req, DEEPSEEK_API_KEY, result, subVars, themeVars>>

\* lines 649-653, 766-772, 869-881: the call of a feedback endpoint returns
\* or raises
FeedbackReply(R) ==
    /\ req.endpoint \in {"shadow_feedback", "substitution_feedback",
                         "expansion_feedback"}
    /\ pc = "await"
    /\ \E r \in R :
        /\ data' = r
        /\ IF r.kind = "error"
           THEN /\ result' = BadGateway
                /\ log' = Append(log, "http_error")
           ELSE /\ result' = Ok(FeedbackResult(req.endpoint, r.text))
                /\ log' = Append(log, "text")
    /\ pc' = "done"
    /\ UNCHANGED <<sessVars, req, DEEPSEEK_API_KEY, calls, subVars, themeVars>>

-----------------------------------------------------------------------------
(* Pass-through endpoints: /transcribe, /synthesize and /chat forward one
   request to the speech-to-text service, the synthesis service and the
   local generation backend *)

\* raise_for_status raises httpx.HTTPStatusError, a kind of httpx.HTTPError,
\* for a status that is not a success; text is the body of that response
HttpStatusError(text) == [kind |-> "error", text |-> text]

\* a response with a success status and its body
Success(body) == [kind |-> "success", body |-> body]

WAV == <<"audio/wav">>
OCTET_STREAM == <<"application/octet-stream">>

ProxyRequests ==
    {[endpoint |-> "transcribe", filename |-> f, content_type |-> ct] :
        f \in {<<>>, <<"a.wav">>}, ct \in {None, JStr(WAV)}}
    \cup {[endpoint |-> "synthesize", text |-> <<"hi">>]}
    \cup {[endpoint |-> "chat", prompt |-> p, model |-> m, options |-> o] :
            p \in ClientPrompts, m \in {None, JStr(MISTRAL), JStr(DEEPSEEK_MODEL)},
            o \in ClientOptions}

\* failures of a forwarded request
ProxyFailures == {HttpError, HttpStatusError(<<>>), HttpStatusError(<<"busy">>)}

\* bodies the speech-to-text service answers with a success status
TranscribeBodies ==
    {Serialize(JObj(<<Member("text", JStr(<<"hi">>))>>)), <<"oops">>}

\* content-type headers and content of a synthesis response
SynthesizeBodies ==
    {[content |-> "RIFF", content_type |-> ct] : ct \in {None, JStr(<<"audio/mpeg">>)}}

\* lines 306-320: the upload is checked and forwarded
ProxyTranscribeCall ==
    /\ req.endpoint = "transcribe"
    /\ pc = "start"
    /\ IF req.filename = <<>>
       THEN /\ result' = Error(400)
            /\ pc' = "done"
            /\ log' = Append(log, "bad_request")
            /\ UNCHANGED calls
       ELSE /\ calls' = Append(calls,
                   [adapter |-> "asr",
                    audio |-> <<req.filename,
                                Or(req.content_type, JStr(OCTET_STREAM)).v>>])
            /\ pc' = "await"
            /\ log' = Append(log, "call")
            /\ UNCHANGED result
    /\ UNCHANGED <<data, sessVars, req, DEEPSEEK_API_KEY, subVars, themeVars>>

\* lines 320-330: both except clauses answer 502; resp.json() of a success
\* is returned, and raises for a body that is not JSON
ProxyTranscribeReply ==
    /\ req.endpoint = "transcribe"
    /\ pc = "await"
    /\ \E r \in ProxyFailures \cup {Success(b) : b \in TranscribeBodies} :
        /\ data' = r
        /\ IF r.kind = "error"
           THEN /\ result' = BadGateway
                /\ log' = Append(log, "http_error")
           ELSE /\ result' = IF JsonLoads(r.body).ok
                             THEN Ok(JsonLoads(r.body).v)
                             ELSE Error(500)
                /\ log' = Append(log, "data")
    /\ pc' = "done"
    /\ UNCHANGED <<sessVars, req, DEEPSEEK_API_KEY, calls, subVars, themeVars>>

\* lines 337-340
ProxySynthesizeCall ==
    /\ req.endpoint = "synthesize"
    /\ pc = "start"
    /\ calls' = Append(calls, [adapter |-> "tts", text |-> req.text])
    /\ pc' = "await"
    /\ log' = Append(log, "call")
    /\ UNCHANGED <<data, sessVars, req, DEEPSEEK_API_KEY, result, subVars, themeVars>>

\* lines 340-353: both except clauses answer 502; the content of a success
\* is streamed back under the content type of the response
ProxySynthesizeReply ==
    /\ req.endpoint = "synthesize"
    /\ pc = "await"
    /\ \E r \in ProxyFailures \cup {Success(b) : b \in SynthesizeBodies} :
        /\ data' = r
        /\ IF r.kind = "error"
           THEN /\ result' = BadGateway
                /\ log' = Append(log, "http_error")
           ELSE /\ result' = Ok([content |-> r.body.content,
                                 media_type |-> Or(r.body.content_type, JStr(WAV)).v])
                /\ log' = Append(log, "data")
    /\ pc' = "done"
    /\ UNCHANGED <<sessVars, req, DEEPSEEK_API_KEY, calls, subVars, themeVars>>

\* line 421: what /chat returns of the reply of the backend
ChatResult(body) ==
    [response |-> DictGet(body, <<"response">>, JStr(<<>>)),
     context |-> DictGet(body, <<"context">>, None)]

\* lines 416-417: the local adapter is called whatever the model names
ChatCall ==
    /\ req.endpoint = "chat"
    /\ pc = "start"
    /\ calls' = Append(calls, QueryOllama(req.prompt, req.model, req.options, None))
    /\ pc' = "await"
    /\ log' = Append(log, "call")
    /\ UNCHANGED <<data, sessVars, req, DEEPSEEK_API_KEY, result, subVars, themeVars>>

\* lines 416-421
ChatReply ==
    /\ req.endpoint = "chat"
    /\ pc = "await"
    /\ \E r \in ProxyFailures \cup {Success(b) : b \in OllamaBodies} :
        /\ data' = r
        /\ IF r.kind = "error"
           THEN /\ result' = BadGateway
                /\ log' = Append(log, "http_error")
           ELSE /\ result' = Ok(ChatResult(r.body))
                /\ log' = Append(log, "data")
    /\ pc' = "done"
    /\ UNCHANGED <<sessVars, req, DEEPSEEK_API_KEY, calls, subVars, themeVars>>

-----------------------------------------------------------------------------
(* Specifications *)

Exercise(endpoint, models) ==
    {[endpoint |-> endpoint, difficulty |-> d, model |-> m] :
        d \in Difficulties, m \in models}

Languages == {EN, <<"Z", "H">>, <<"f", "r">>}

ThemeRequests(models, languages) ==
    {[endpoint |-> "resolve_theme", language |-> l, count |-> n, model |-> m] :
        l \in languages, n \in 1..MaxCards, m \in models}

SessionRequests == {[endpoint |-> "sessions"]}

\* the state in which a request arrives: the store holds the sessions that
\* earlier requests left, with the history of how they came about
InitStore(requests, keys, stores) ==
    /\ req \in requests
    /\ DEEPSEEK_API_KEY \in keys
    /\ pc = IF req.endpoint = "substitution_start" THEN "loop"
            ELSE IF req.endpoint = "sessions" THEN "serve"
            ELSE "start"
    /\ calls = <<>>
    /\ result = Pending
    /\ attempts = 0
    /\ base_sentence = <<>>
    /\ slots = <<>>
    /\ labels_in_sentence = <<>>
    /\ intent_text = <<>>
    /\ anchor_text = <<>>
    /\ log = <<>>
    /\ \E store \in stores :
        /\ SESSIONS = store.SESSIONS
        /\ next_rid = store.next_rid
        /\ completed = store.completed
        /\ last_mode = store.last_mode
        /\ recorded = store.recorded
    /\ inflight = {}
    /\ answered = Answers("none", "")
    /\ data = None

\* the store after startup (line 282)
EmptyStore ==
    [SESSIONS |-> <<>>, next_rid |-> 1, completed |-> <<>>, last_mode |-> <<>>,
     recorded |-> <<>>]

InitWith(requests, keys) == InitStore(requests, keys, {EmptyStore})

\* every start generator with a few backend texts of each kind, under every
\* model override and with and without the remote credential
Init ==
    InitWith(Exercise("substitution_start", ModelHints)
                 \cup Exercise("expansion_start", ModelHints)
                 \cup Exercise("review_start", ModelHints)
                 \cup Exercise("shadow_start", ModelHints)
                 \cup ThemeRequests(ModelHints, Languages),
             BOOLEAN)

Next ==
    \/ SubstitutionCall
    \/ SubstitutionReply(Replies(SubstitutionBasicTexts))
    \/ SubstitutionReturn
    \/ ExpansionCall
    \/ ExpansionReply(Replies(ExpansionBasicTexts))
    \/ ReviewCall
    \/ ReviewReply(Replies(ReviewBasicTexts))
    \/ ShadowCall
    \/ ShadowReply(Replies(ShadowTexts))
    \/ ThemeIntentCall
    \/ ThemeIntentReply(Replies(IntentTexts))
    \/ ThemeAnchorCall
    \/ ThemeAnchorReply(Replies(ThemeBasicTexts))

Spec == Init /\ [][Next]_vars

\* the generators that parse a payload, served by a local model, with the
\* backend texts of every shape
InitPayload ==
    InitWith(Exercise("substitution_start", {JStr(MISTRAL)})
                 \cup Exercise("expansion_start", {JStr(MISTRAL)})
                 \cup Exercise("review_start", {JStr(MISTRAL)})
                 \cup ThemeRequests({JStr(MISTRAL)}, {EN}),
             {FALSE})

NextPayload ==
    \/ SubstitutionCall
    \/ SubstitutionReply(Replies(SubstitutionTexts))
    \/ SubstitutionReturn
    \/ ExpansionCall
    \/ ExpansionReply(Replies(ExpansionTexts))
    \/ ReviewCall
    \/ ReviewReply(Replies(ReviewTexts))
    \/ ThemeIntentCall
    \/ ThemeIntentReply(Replies(IntentTexts))
    \/ ThemeAnchorCall
    \/ ThemeAnchorReply(Replies(ThemeTexts))

SpecPayload == InitPayload /\ [][NextPayload]_vars

\* the session store under any interleaving of its requests
InitSession == InitWith(SessionRequests, {FALSE})

NextSession ==
    \/ CreateSession
    \/ GetSession
    \/ UpdateSession
    \/ SessionChatCall
    \/ SessionChatReply

SpecSession == InitSession /\ [][NextSession]_vars

\* the generation client under every model hint, context token and
\* credential setting
InitClient == InitWith(ClientRequests, BOOLEAN)

NextClient ==
    \/ ClientCall
    \/ ClientReply

SpecClient == InitClient /\ [][NextClient]_vars

\* the pass-through endpoints: the two speech proxies, the raw chat and the
\* session chat with the requests that create its sessions
InitProxy == InitWith(ProxyRequests \cup SessionRequests, {FALSE})

NextProxy ==
    \/ ProxyTranscribeCall
    \/ ProxyTranscribeReply
    \/ ProxySynthesizeCall
    \/ ProxySynthesizeReply
    \/ ChatCall
    \/ ChatReply
    \/ CreateSession
    \/ SessionChatCall
    \/ SessionChatReply

SpecProxy == InitProxy /\ [][NextProxy]_vars

\* stores that session requests leave behind: none, a new session, and a
\* session with one turn and its context token
Stores ==
    {EmptyStore,
     [SESSIONS |-> ("s1" :> [user_id |-> None, mode |-> FLUENCY, history |-> <<>>,
                             context |-> None]),
      next_rid |-> 1, completed |-> ("s1" :> 0), last_mode |-> ("s1" :> FLUENCY),
      recorded |-> ("s1" :> <<>>)],
     [SESSIONS |-> ("s1" :> [user_id |-> None, mode |-> REVIEW,
                             history |-> <<[prompt |-> "p1", response |-> "r"]>>,
                             context |-> JList(<<JNum(1)>>)]),
      next_rid |-> 2, completed |-> ("s1" :> 1), last_mode |-> ("s1" :> REVIEW),
      recorded |-> ("s1" :> <<[rid |-> 1, sent |-> None,
                               stored |-> JList(<<JNum(1)>>)]>>)]}

AGENT == <<"a", "gent">>
USER == <<"u", "S", "E", "R">>

Histories ==
    {<<>>,
     <<[role |-> AGENT, content |-> <<"Hi">>]>>,
     <<[role |-> AGENT, content |-> <<"Hi">>], [role |-> USER, content |-> <<>>]>>,
     <<[role |-> AGENT, content |-> <<"Hi">>], [role |-> USER, content |-> <<"Yes">>]>>}

ReviewTurnRequests ==
    {[endpoint |-> "review_turn", theme |-> th, history |-> h, user_reply |-> u,
      attempt |-> a, model |-> m, options |-> o] :
        th \in {"t1", "t2"}, h \in Histories,
        u \in {<<"Yes">>, <<" ", "Yes", " ">>, <<"No">>}, a \in 1..2,
        m \in {None, JStr(MISTRAL), JStr(DEEPSEEK_MODEL)},
        o \in {{}, {<<"temperature", 50>>}, {<<"seed", 1>>}}}

ReviewTurnTexts == {<<>>, <<" ">>, <<" ", "Go", " ", "on", NL>>}

\* every exercise endpoint of the start generators and the review turn,
\* served beside a store that holds sessions
InitExercise ==
    InitStore(Exercise("substitution_start", ModelHints)
                  \cup Exercise("expansion_start", ModelHints)
                  \cup Exercise("review_start", ModelHints)
                  \cup Exercise("shadow_start", ModelHints)
                  \cup ThemeRequests(ModelHints, Languages)
                  \cup ReviewTurnRequests,
              BOOLEAN, Stores)

NextExercise ==
    \/ SubstitutionCall
    \/ SubstitutionReply(Replies(SubstitutionBasicTexts))
    \/ SubstitutionReturn
    \/ ExpansionCall
    \/ ExpansionReply(Replies(ExpansionBasicTexts))
    \/ ReviewCall
    \/ ReviewReply(Replies(ReviewBasicTexts))
    \/ ReviewTurnCall
    \/ ReviewTurnReply(Replies(ReviewTurnTexts))
    \/ ShadowCall
    \/ ShadowReply(Replies(ShadowTexts))
    \/ ThemeIntentCall
    \/ ThemeIntentReply(Replies(IntentTexts))
    \/ ThemeAnchorCall
    \/ ThemeAnchorReply(Replies(ThemeBasicTexts))

SpecExercise == InitExercise /\ [][NextExercise]_vars

\* sampling options a caller sends: none, its own temperature, its own
\* top_p beside another key, both
FeedbackOptions ==
    {{}, {<<"temperature", 90>>}, {<<"top_p", 50>>, <<"seed", 1>>},
     {<<"temperature", 90>>, <<"top_p", 50>>}}

Transcripts == {<<"I", " ", "went">>, <<"I", " ", "go">>}

FeedbackRequests ==
    {[endpoint |-> "shadow_feedback", reference |-> <<"I", " ", "went">>,
      transcript |-> tr, options |-> o] :
        tr \in Transcripts, o \in FeedbackOptions}
    \cup {[endpoint |-> "substitution_feedback",
           base_sentence |-> <<"I", " ", "need", " ", "[", "drink", "]">>,
           transcript |-> tr, slots |-> ss, target_language |-> l, options |-> o] :
            tr \in Transcripts, l \in Languages, o \in FeedbackOptions,
            ss \in {<<>>, <<[label |-> <<"drink">>,
                             options |-> <<<<"tea">>, <<"milk">>>>]>>}}
    \cup {[endpoint |-> "expansion_feedback", seed |-> <<"I", " ", "went">>,
           transcript |-> tr, scaffolds |-> sc, target_language |-> l,
           options |-> o] :
            tr \in Transcripts, l \in Languages, o \in FeedbackOptions,
            sc \in {<<>>, <<<<"Add", " ", "when">>, <<"Add", " ", "why">>>>}}

SixWords == <<"I", " ", "went", " ", "home", " ", "so", " ", "I", " ", "slept">>

\* feedback texts: none, one short line, a line of six words under a
\* bullet, such a line between short ones, two such lines
FeedbackTexts ==
    {<<>>,
     <<" ", "Good", NL>>,
     <<"-", " ">> \o SixWords,
     <<"Nice", NL, BULLET>> \o SixWords \o <<NL, "-", " ", "ok">>,
     SixWords \o <<NL, "-", "-">> \o SixWords \o <<" ", "well", "-">>}

\* the three drill feedback endpoints
InitFeedback == InitWith(FeedbackRequests, {FALSE})

NextFeedback ==
    \/ ShadowFeedbackCall
    \/ SubstitutionFeedbackCall
    \/ ExpansionFeedbackCall
    \/ FeedbackReply(Replies(FeedbackTexts))

SpecFeedback == InitFeedback /\ [][NextFeedback]_vars


-----------------------------------------------------------------------------
(* Properties *)

Last(s) == s[Len(s)]
Happened(e) == \E i \in 1..Len(log) : log[i] = e
Done(endpoint) == req.endpoint = endpoint /\ pc = "done"
Occurrences(s, x) == Cardinality({i \in 1..Len(s) : s[i] = x})
SlotLabels(ss) == [i \in 1..Len(ss) |-> ss[i].label]

\* every slot label stands in exactly one bracket placeholder of the
\* sentence, and every placeholder names exactly one slot
Bijection(sentence, ss) ==
    /\ \A i \in 1..Len(ss) : Occurrences(FindLabels(sentence), ss[i].label) = 1
    /\ \A j \in 1..Len(FindLabels(sentence)) :
          Occurrences(SlotLabels(ss), FindLabels(sentence)[j]) = 1

\* substitution_start has returned its fallback after two responses that
\* failed validation
FailedTwice ==
    /\ Done("substitution_start")
    /\ log = <<"call", "invalid", "call", "invalid", "fallback">>

\* substitution_start has returned a response as it was parsed
Accepted == Done("substitution_start") /\ Last(log) = "accept"

\* C1: on the fallback path of substitution_start, after two responses that
\* failed validation, the bracketed labels of the returned sentence and the
\* labels of the returned slots are in bijection.
C1_FallbackBijection ==
    FailedTwice => Bijection(result.body.base_sentence, result.body.slots)

\* C2: on the fallback path of substitution_start the number of returned
\* slots is the slot count of the difficulty (easy 1, medium 2, hard 3,
\* expert 4, otherwise 2).
C2_FallbackSlotCount ==
    FailedTwice =>
        Len(result.body.slots) = DiffTable(Diff(req.difficulty), 1, 2, 3, 4, 2)

\* C3: a response that substitution_start returns as parsed has its slot
\* labels and bracket placeholders in bijection, and as many slots as the
\* difficulty asks for.
C3_AcceptBijection ==
    Accepted =>
        /\ Bijection(result.body.base_sentence, result.body.slots)
        /\ Len(result.body.slots) = DiffTable(Diff(req.difficulty), 1, 2, 3, 4, 2)

\* C4: substitution_start issues at most two generation calls; the second
\* one follows a first response that failed validation and equals the first
\* in prompt, model and sampling options; a finished request has ended in
\* accept, fallback or an error.
C4_AtMostTwoCalls ==
    (req.endpoint = "substitution_start") =>
        /\ Len(calls) <= 2
        /\ (Len(calls) = 2) =>
              /\ calls[1] = calls[2]
              /\ SubSeq(log, 1, 3) = <<"call", "invalid", "call">>
        /\ (pc = "done") =>
              /\ result.status \in {"ok", "error"}
              /\ Last(log) \in {"accept", "fallback", "http_error", "config_error"}

\* C4, its case: a request that called twice and ended in the fallback
C4_TwoCallsThenFallback ==
    FailedTwice /\ Len(calls) = 2 /\ result.status = "ok"

\* C5: when a generation call of a start generator fails in transport or
\* with a non-success status, the request still returns an artifact, never
\* an error response.
C5_TransportErrorAbsorbed ==
    (pc = "done" /\ Happened("http_error")) => result.status = "ok"

\* C6: whatever text the backend answers, substitution_start,
\* expansion_start and review_start return an artifact whose sentence, seed
\* or opening is not empty, and no error.
C6_TextNeverSurfaces ==
    (pc = "done" /\ ~Happened("http_error") /\ ~Happened("config_error")) =>
        CASE req.endpoint = "substitution_start" ->
                /\ result.status = "ok"
                /\ result.body.base_sentence # <<>>
                /\ \A i \in 1..Len(result.body.slots) :
                      DOMAIN result.body.slots[i] = {"label", "options"}
          [] req.endpoint = "expansion_start" ->
                result.status = "ok" /\ result.body.seed # <<>>
          [] req.endpoint = "review_start" ->
                result.status = "ok" /\ result.body.opening # <<>>
          [] OTHER -> TRUE

\* C6, its case: two empty responses, answered with the default sentence
C6_EmptyTextsGiveDefault ==
    /\ FailedTwice
    /\ result.status = "ok"
    /\ StartsWith(result.body.base_sentence, DefaultSentence)

\* C7: when the anchor call of resolve_theme returns a text, however
\* malformed, the request returns a card list and no error.
C7_MalformedTextNoError ==
    (Done("resolve_theme") /\ Len(log) = 4 /\ Last(log) # "http_error") =>
        result.status = "ok"

\* the anchors array of a payload text, <<>> where the text is no object
\* with an anchors array
PayloadCards(text) ==
    IF JsonLoads(text).ok /\ IsDict(JsonLoads(text).v)
       /\ DictGet(JsonLoads(text).v, <<"anchors">>, JNull).t = "list"
    THEN DictGet(JsonLoads(text).v, <<"anchors">>, JNull).v
    ELSE <<>>

\* a card with a phrase that is a non-empty string, and with cue and
\* difficulty that are strings where present
WellFormedCard(card) ==
    /\ IsDict(card)
    /\ DictGet(card, <<"phrase">>, JNull).t = "str"
    /\ DictGet(card, <<"phrase">>, JNull).v # <<>>
    /\ DictGet(card, <<"cue">>, JNull).t \in {"str", "null"}
    /\ DictGet(card, <<"difficulty">>, JNull).t \in {"str", "null"}

\* the anchor call answered a well-formed payload of as many cards as asked
PayloadOfCount ==
    /\ Done("resolve_theme")
    /\ Len(log) = 4
    /\ Last(log) # "http_error"
    /\ Len(PayloadCards(anchor_text)) = req.count
    /\ \A i \in 1..req.count : WellFormedCard(PayloadCards(anchor_text)[i])

\* a phrase that is not blank and does not hold the word "phrase"
UsablePhrase(card) ==
    /\ StripWs(DictGet(card, <<"phrase">>, JNull).v) # <<>>
    /\ ~Contains(Lower(DictGet(card, <<"phrase">>, JNull).v), <<"phrase">>)

\* the response holds one card per payload card, in payload order, each
\* with a phrase and a cue that are not empty
OneCardEach ==
    /\ result.status = "ok"
    /\ Len(result.body.phrase_cards) = req.count
    /\ \A i \in 1..req.count :
          /\ result.body.phrase_cards[i].phrase
                = StripWs(DictGet(PayloadCards(anchor_text)[i], <<"phrase">>, JNull).v)
          /\ result.body.phrase_cards[i].phrase # <<>>
          /\ result.body.phrase_cards[i].cue # <<>>

\* C8, as stated: a well-formed payload of N cards with non-empty phrases,
\* for a request of N cards, gives exactly N phrase cards in payload order,
\* each with a non-empty phrase and a non-empty cue.
C8_ExactlyNCards == PayloadOfCount => OneCardEach

\* C8, amended: a well-formed payload of N cards whose phrases are not
\* blank and do not hold the word "phrase", for a request of N cards, gives
\* exactly N phrase cards in payload order, each with a non-empty phrase
\* and a non-empty cue.
C8_ExactlyNUsableCards ==
    (/\ PayloadOfCount
     /\ \A i \in 1..req.count : UsablePhrase(PayloadCards(anchor_text)[i]))
        => OneCardEach

\* C8, its case: several usable cards, one of them without a usable cue
C8_SeveralUsableCards ==
    /\ PayloadOfCount
    /\ req.count > 1
    /\ \A i \in 1..req.count : UsablePhrase(PayloadCards(anchor_text)[i])
    /\ \E i \in 1..req.count :
          DictGet(PayloadCards(anchor_text)[i], <<"cue">>, JNull).t = "null"
    /\ OneCardEach

\* C9: expansion_start answers every backend outcome with a seed that is
\* not empty and exactly as many scaffolds as the difficulty requires
\* (easy 2, medium 3, hard 4, expert 4, otherwise 3).
C9_ScaffoldCount ==
    Done("expansion_start") =>
        /\ result.status = "ok"
        /\ result.body.seed # <<>>
        /\ Len(result.body.scaffolds) = DiffTable(Diff(req.difficulty), 2, 3, 4, 4, 3)

\* C9, its case: a transport error on the hardest difficulty, where the
\* three scaffolds of the except clause are padded to four
C9_ErrorPaddedToFour ==
    /\ Done("expansion_start")
    /\ Last(log) = "http_error"
    /\ Diff(req.difficulty) = EXPERT
    /\ Len(result.body.scaffolds) = Len(ExceptScaffolds) + 1

\* C10: a get on a session reports as many turns as chat turns of that
\* session have succeeded, and the mode last set (at creation or by an
\* update).
C10_GetRoundTrip ==
    (answered.op = "get" /\ result.status = "ok") =>
        /\ result.body.turns = completed[answered.session_id]
        /\ result.body.mode = last_mode[answered.session_id]

\* C10, its case: a get after two successful turns and a change of mode
C10_GetAfterTurns ==
    /\ answered.op = "get"
    /\ result.status = "ok"
    /\ result.body.turns = MaxRequests
    /\ completed[answered.session_id] = MaxRequests
    /\ result.body.mode = REVIEW
    /\ Len(SESSIONS[answered.session_id].history) = MaxRequests

\* C11: setting the mode of a session changes the mode of that session and
\* nothing else in the store; a get changes nothing in the store; history
\* and context token of a session change only when a chat turn of that
\* session is recorded.
C11_SetModeFrame ==
    [][ /\ \A s \in DOMAIN SESSIONS :
            /\ s \in DOMAIN SESSIONS'
            /\ (\/ SESSIONS'[s].history # SESSIONS[s].history
                \/ SESSIONS'[s].context # SESSIONS[s].context)
                  => /\ answered' = Answers("chat", s)
                     /\ Len(recorded'[s]) = Len(recorded[s]) + 1
            /\ (answered'.op = "update") =>
                  /\ SESSIONS'[s].history = SESSIONS[s].history
                  /\ SESSIONS'[s].context = SESSIONS[s].context
                  /\ SESSIONS'[s].user_id = SESSIONS[s].user_id
                  /\ (s # answered'.session_id) => SESSIONS'[s] = SESSIONS[s]
        /\ (answered'.op = "update") => DOMAIN SESSIONS' = DOMAIN SESSIONS
        /\ (answered'.op = "get") => SESSIONS' = SESSIONS
      ]_vars

\* C11, its case: the mode was set on a session that holds a turn and a
\* context token, beside another session
C11_ModeSetAfterTurn ==
    /\ answered.op = "update"
    /\ result.status = "ok"
    /\ result.body.mode = REVIEW
    /\ result.body.turns = 1
    /\ Len(SESSIONS[answered.session_id].history) = 1
    /\ SESSIONS[answered.session_id].context # None
    /\ SESSIONS[answered.session_id].mode = REVIEW
    /\ DOMAIN SESSIONS = SessionIds

\* C12: a get, an update or a chat that names an identifier the store does
\* not hold is answered with the not-found error and leaves the store and
\* the waiting backend calls as they were; no backend call is ever waiting
\* for a session the store does not hold.
C12_UnknownSession ==
    /\ [](\A w \in inflight : w.session_id \in DOMAIN SESSIONS)
    /\ [][ \A s \in SessionIds \ DOMAIN SESSIONS :
              (/\ answered' # answered
               /\ answered'.session_id = s
               /\ answered'.op \in {"get", "update", "chat"})
                 => /\ result' = Error(404)
                    /\ SESSIONS' = SESSIONS
                    /\ inflight' = inflight
                    /\ next_rid' = next_rid
                    /\ calls' = calls
         ]_vars

\* C12, its case: a chat on an unknown identifier was refused while another
\* session exists and has a call waiting
C12_UnknownChatRefused ==
    /\ answered.op = "chat"
    /\ answered.session_id \notin DOMAIN SESSIONS
    /\ result = Error(404)
    /\ DOMAIN SESSIONS # {}
    /\ inflight # {}

\* C13: the turns of a session are recorded in the order in which their
\* chat requests arrived.
C13_ArrivalOrder ==
    \A s \in DOMAIN recorded :
        /\ Len(recorded[s]) = Len(SESSIONS[s].history)
        /\ \A i, j \in 1..Len(recorded[s]) :
              (i < j) => recorded[s][i].rid < recorded[s][j].rid

\* the token that follows a turn: the one it stored, none where it stored
\* none or an empty one
TokenAfter(turn) == IF Truthy(turn.stored) THEN turn.stored ELSE None

\* C14: the context token a chat sent to the backend is the token stored by
\* the turn recorded just before its own turn, none for the first turn.
C14_TokenSerialized ==
    \A s \in DOMAIN recorded :
        \A i \in 1..Len(recorded[s]) :
            recorded[s][i].sent =
                IF i = 1 THEN None ELSE TokenAfter(recorded[s][i - 1])

\* a model hint that begins with the family name of the remote provider
RemoteFamily(hint) ==
    /\ hint.t = "str"
    /\ StartsWith(Lower(hint.v), <<"d", "e", "e", "p", "s", "e", "e", "k">>)

\* C15: _query_llm calls the remote adapter, and no other, for a model hint
\* that begins with the remote family name; for any other hint it calls the
\* local adapter, and no other, and for an absent or empty hint the local
\* adapter is called with the configured local model.
C15_Dispatch ==
    (req.endpoint = "query_llm" /\ pc # "start") =>
        IF RemoteFamily(req.model)
        THEN \A i \in 1..Len(calls) : calls[i].adapter = "deepseek"
        ELSE /\ ~Happened("config_error")
             /\ Len(calls) = 1
             /\ calls[1].adapter = "ollama"
             /\ (~Truthy(req.model)) => calls[1].model = OLLAMA_MODEL

\* C16: where the credential is not set and the remote adapter is chosen,
\* the request makes no outbound call and ends in an error reported to the
\* caller.
C16_ConfigurationError ==
    (pc = "done" /\ Happened("config_error")) =>
        /\ calls = <<>>
        /\ result.status = "error"

\* C17: the request the remote adapter posts holds no context token and its
\* result dict holds a null context token, whatever token the caller
\* passed; the local adapter posts the caller's token and returns the token
\* of the reply.
C17_RemoteStateless ==
    (req.endpoint = "query_llm") =>
        \A i \in 1..Len(calls) :
            IF calls[i].adapter = "deepseek"
            THEN /\ "context" \notin DOMAIN calls[i]
                 /\ (result.status = "ok") =>
                        /\ DictGet(result.body, <<"context">>, JNull) = None
                        /\ DictGet(result.body, <<"response">>, JNull).t = "str"
            ELSE /\ calls[i].context
                        = IF Truthy(req.context) THEN req.context ELSE None
                 /\ (result.status = "ok") =>
                        DictGet(result.body, <<"context">>, None)
                            = DictGet(data, <<"context">>, None)

\* C17, its case: the caller passed a token, the remote reply held a
\* context field, and the result holds none
C17_TokenNotHandedOn ==
    /\ req.endpoint = "query_llm"
    /\ pc = "done"
    /\ Truthy(req.context)
    /\ Len(calls) = 1
    /\ calls[1].adapter = "deepseek"
    /\ data # None
    /\ Truthy(DictGet(data, <<"context">>, None))
    /\ result.status = "ok"
    /\ DictGet(result.body, <<"context">>, JNull) = None

\* a text that json.loads reads as an object
IsObjectText(s) == JsonLoads(s).ok /\ IsDict(JsonLoads(s).v)

NoBrace(s) == \A i \in 1..Len(s) : s[i] \notin {"{", "}"}

\* a text between an opening fence line and a closing fence line
FenceWrapped(text) ==
    /\ Len(text) > 5
    /\ SubSeq(text, 1, 3) = <<FENCE, "json", NL>>
    /\ SubSeq(text, Len(text) - 1, Len(text)) = <<NL, FENCE>>

FenceInner(text) == SubSeq(text, 4, Len(text) - 2)

\* the anchor call of resolve_theme has answered a text
AnchorTextReceived ==
    Done("resolve_theme") /\ Len(log) = 4 /\ Last(log) # "http_error"

\* C18: of the anchor response, resolve_theme extracts the object inside a
\* code fence, the object between prose (a text that does not parse as it
\* stands), and the empty structure where the text holds no object; a text
\* that parses as it stands is taken as parsed, before any substring is
\* tried.
C18_Extraction ==
    AnchorTextReceived =>
        /\ (FenceWrapped(anchor_text) /\ IsObjectText(FenceInner(anchor_text)))
              => ThemeExtract(anchor_text) = JsonLoads(FenceInner(anchor_text)).v
        /\ \A i, j \in 1..Len(anchor_text) :
              (/\ i < j
               /\ anchor_text[i] = "{"
               /\ anchor_text[j] = "}"
               /\ NoBrace(SubSeq(anchor_text, 1, i - 1))
               /\ NoBrace(SubSeq(anchor_text, j + 1, Len(anchor_text)))
               /\ ~JsonLoads(anchor_text).ok
               /\ IsObjectText(SubSeq(anchor_text, i, j)))
                 => ThemeExtract(anchor_text) = JsonLoads(SubSeq(anchor_text, i, j)).v
        /\ NoBrace(anchor_text) => ThemeExtract(anchor_text) = JObj(<<>>)
        /\ (~StartsWith(anchor_text, <<FENCE>>) /\ JsonLoads(anchor_text).ok)
              => ThemeExtract(anchor_text) = JsonLoads(anchor_text).v

\* a payload inside a fence or inside prose: the text does not parse as it
\* stands, and holds an object between its fence lines or between its first
\* "{" and its last "}"
WrappedPayload(text) ==
    /\ ~JsonLoads(text).ok
    /\ \/ FenceWrapped(text) /\ IsObjectText(FenceInner(text))
       \/ /\ IndexFrom(text, "{", 1) # 0
          /\ IsObjectText(SubSeq(text, IndexFrom(text, "{", 1),
                                 LastIndexFrom(text, "}", Len(text))))

Unwrapped(text) ==
    IF FenceWrapped(text) THEN FenceInner(text)
    ELSE SubSeq(text, IndexFrom(text, "{", 1), LastIndexFrom(text, "}", Len(text)))

\* the awaited call of the request has answered a payload inside a fence or
\* inside prose
WrappedReply == "kind" \in DOMAIN data /\ data.kind = "text" /\ WrappedPayload(data.text)

\* C19: resolve_theme, substitution_start, expansion_start and review_start
\* make of a payload inside a code fence or inside prose what they make of
\* the payload alone.
C19_SameExtraction ==
    /\ (AnchorTextReceived /\ WrappedPayload(anchor_text)) =>
          IF ThemeParse(Unwrapped(anchor_text), req.count).raised
          THEN result.status = "error"
          ELSE /\ result.status = "ok"
               /\ result.body.phrase_cards
                     = ThemeParse(Unwrapped(anchor_text), req.count).cards
    /\ (req.endpoint = "substitution_start" /\ pc \in {"loop", "after_loop"}
        /\ WrappedReply) =>
          /\ base_sentence = SubstitutionParse(Unwrapped(data.text)).base_sentence
          /\ slots = SubstitutionParse(Unwrapped(data.text)).slots
    /\ (Done("expansion_start") /\ WrappedReply) =>
          result.body
             = ExpansionFinish(ExpansionParse(Unwrapped(data.text),
                                              ScaffoldCount(Diff(req.difficulty))),
                               ScaffoldCount(Diff(req.difficulty)))
    /\ (Done("review_start") /\ WrappedReply) =>
          result.body = ReviewFinish(ReviewParse(Unwrapped(data.text)))

\* C20: where the response of the backend does not hold the marker
\* "Sentence:", shadow_start returns the whole trimmed response as the
\* sentence and no cue, also where the response holds the marker "Cue:".
C20_NoMarkerWholeText ==
    (/\ Done("shadow_start")
     /\ Last(log) = "text"
     /\ ~Contains(data.text, <<"Sentence", ":">>))
        => /\ result.status = "ok"
           /\ result.body.sentence = StripWs(data.text)
           /\ result.body.cue = None

\* C21: in the pass-through endpoints (transcribe, synthesize, raw chat,
\* session chat) a transport failure or a non-success status of the backend
\* is answered with the gateway failure 502, never with a success.
C21_GatewayFailure ==
    /\ (/\ req.endpoint \in {"transcribe", "synthesize", "chat"}
        /\ pc = "done"
        /\ data # None
        /\ data.kind = "error")
          => result = Error(502)
    /\ (/\ req.endpoint = "sessions"
        /\ answered.op = "chat"
        /\ data # None
        /\ data.kind = "error")
          => result = Error(502)

\* a session chat whose backend call failed
C21_SessionChatFailed ==
    /\ req.endpoint = "sessions"
    /\ answered.op = "chat"
    /\ data = HttpError
    /\ result = Error(502)

\* the difficulty a table is to be read at: the level named, in any letter
\* case, and medium where none or no level is named
Levels == {EASY, MEDIUM, HARD, EXPERT}
Normalized(d) == IF d.t = "str" /\ Lower(d.v) \in Levels THEN Lower(d.v) ELSE MEDIUM

\* the cues the cards of the anchor response give themselves
PayloadCues(parsed) ==
    {StripWs(DictGet(item, <<"cue">>, JStr(<<>>)).v) :
        item \in {c \in Range(IterItems(DictGet(parsed, <<"anchors">>, JList(<<>>)))) :
                     IsDict(c) /\ DictGet(c, <<"cue">>, JStr(<<>>)).t = "str"}}

\* C22: every difficulty-indexed table (shadowing style, substitution slot
\* count and option count, expansion scaffold count, review tone, fallback
\* cue of the theme resolver) is read without regard to letter case, and an
\* absent or unrecognized difficulty gives the value of medium.
C22_DifficultyNormalized ==
    /\ \A i \in 1..Len(calls) :
          /\ calls[i].prompt.endpoint = "shadow_start"
                => calls[i].prompt.difficulty_style
                        = ShadowStyle(Normalized(req.difficulty))
          /\ calls[i].prompt.endpoint = "substitution_start"
                => /\ calls[i].prompt.slot_count = SlotCount(Normalized(req.difficulty))
                   /\ calls[i].prompt.options_count
                        = OptionsCount(Normalized(req.difficulty))
          /\ calls[i].prompt.endpoint = "expansion_start"
                => calls[i].prompt.scaffold_count
                        = ScaffoldCount(Normalized(req.difficulty))
          /\ calls[i].prompt.endpoint = "review_start"
                => calls[i].prompt.tone = ReviewTone(Normalized(req.difficulty))
    /\ (Done("resolve_theme") /\ result.status = "ok")
          => \A i \in 1..Len(result.body.phrase_cards) :
                \/ result.body.phrase_cards[i].cue
                        \in PayloadCues(ThemeExtract(anchor_text))
                \/ result.body.phrase_cards[i].cue
                        = FallbackCue(Normalized(result.body.phrase_cards[i].difficulty))

\* C23: a session is never destroyed: an identifier that create returned
\* stays in the store, and every later get, setMode or chat on it finds the
\* session, whatever requests were served in between, failed chats included.
C23_NeverDestroyed ==
    /\ DOMAIN completed \subseteq DOMAIN SESSIONS
    /\ (/\ answered.op \in {"get", "update", "chat"}
        /\ answered.session_id \in DOMAIN completed)
          => result # NotFound

\* every chat issued has failed, and a get still finds its session
C23_FoundAfterFailedChat ==
    /\ next_rid > 1
    /\ inflight = {}
    /\ \A s \in DOMAIN completed : completed[s] = 0
    /\ answered.op = "get"
    /\ result.status = "ok"

\* C24: a review turn, like every exercise endpoint, keeps no state on the
\* server: it creates no session and leaves the mode, history and context
\* token of every stored session as they are; and its prompt depends on
\* nothing but the history and the latest reply the caller supplies.
C24_ReviewTurnStateless ==
    /\ [][SESSIONS' = SESSIONS]_vars
    /\ [](req.endpoint = "review_turn"
            => \A i \in 1..Len(calls) : \A other \in ReviewTurnRequests :
                  (other.history = req.history /\ other.user_reply = req.user_reply)
                      => calls[i].prompt = ReviewTurnPrompt(other))

\* a review turn with a history was answered while the store held a session
\* with a recorded turn
C24_TurnBesideSession ==
    /\ Done("review_turn")
    /\ result.status = "ok"
    /\ req.history # <<>>
    /\ "s1" \in DOMAIN SESSIONS
    /\ Len(SESSIONS["s1"].history) = 1

\* C25: the generation client does not retry: an invocation of the
\* dispatching client, and so of the adapter it chooses, issues at most one
\* outbound call, also where that call fails.
C25_NoRetry ==
    /\ Len(calls) <= 1
    /\ (pc = "done" /\ Happened("http_error"))
          => /\ Len(calls) = 1
             /\ result = Error(502)

\* the one call of an invocation, made by the remote adapter, has failed
C25_OneCallFailed ==
    /\ pc = "done"
    /\ Last(log) = "http_error"
    /\ Len(calls) = 1
    /\ calls[1].adapter = "deepseek"

\* C26: every exercise start endpoint (theme, shadowing, substitution,
\* expansion, review) honours the model override: its generation calls go
\* through the dispatch on the hint, so an override of the remote family
\* sends every call of the endpoint to the remote adapter.
C26_ModelOverride ==
    (/\ req.endpoint \in {"resolve_theme", "shadow_start", "substitution_start",
                          "expansion_start", "review_start"}
     /\ RemoteFamily(req.model))
        => \A i \in 1..Len(calls) : calls[i].adapter = "deepseek"

\* the scaffolds expansion_start holds before it pads: those of the reply,
\* or those of the except clause
ScaffoldsBefore ==
    IF data.kind = "error"
    THEN ExpansionExcept(ScaffoldCount(Diff(req.difficulty))).scaffolds
    ELSE ExpansionParse(data.text, ScaffoldCount(Diff(req.difficulty))).scaffolds

\* after holds before, followed by entries of the default pool none of which
\* was in the list when it was appended, and has count entries where before
\* had fewer
PaddedFrom(before, after, count) ==
    /\ Len(after) >= Len(before)
    /\ SubSeq(after, 1, Len(before)) = before
    /\ \A j \in (Len(before) + 1)..Len(after) :
          /\ \E d \in 1..Len(DefaultScaffolds) : after[j] = DefaultScaffolds[d]
          /\ \A k \in 1..(j - 1) : after[k] # after[j]
    /\ Len(before) < count => Len(after) = count

\* C27: the padding of expansion_start appends an entry of the default pool
\* only where the list does not hold it yet, so it introduces no duplicate,
\* and it always reaches the required count.
C27_PaddingNoDuplicate ==
    Done("expansion_start") =>
        PaddedFrom(ScaffoldsBefore, result.body.scaffolds,
                   ScaffoldCount(Diff(req.difficulty)))

\* a reply whose scaffolds hold an entry of the default pool was padded
C27_PoolEntryAlreadyThere ==
    /\ Done("expansion_start")
    /\ Last(log) = "text"
    /\ \E i \in 1..Len(ScaffoldsBefore) : ScaffoldsBefore[i] = DefaultScaffolds[1]
    /\ Len(ScaffoldsBefore) < Len(result.body.scaffolds)

\* C28: whatever the anchor response holds, every phrase card that
\* resolve_theme returns has a phrase that is not empty and does not hold the
\* word "phrase" in any letter case, and a cue that is not empty; and it
\* returns no more cards than the request asks for.
C28_CardFilter ==
    (Done("resolve_theme") /\ result.status = "ok")
        => /\ Len(result.body.phrase_cards) <= req.count
           /\ \A i \in 1..Len(result.body.phrase_cards) :
                 /\ result.body.phrase_cards[i].phrase # <<>>
                 /\ ~Contains(Lower(result.body.phrase_cards[i].phrase), <<"phrase">>)
                 /\ result.body.phrase_cards[i].cue # <<>>

\* a payload of more cards than asked for, with a card whose phrase holds
\* the word and a card whose cue is generic, was cut and filtered
C28_CutAndFiltered ==
    /\ Done("resolve_theme")
    /\ result.status = "ok"
    /\ Len(PayloadCards(anchor_text)) > req.count
    /\ \A i \in 1..Len(PayloadCards(anchor_text)) :
          WellFormedCard(PayloadCards(anchor_text)[i])
    /\ Len(result.body.phrase_cards) < req.count
    /\ \E i \in 1..req.count :
          Contains(Lower(DictGet(PayloadCards(anchor_text)[i], <<"phrase">>, JStr(<<>>)).v),
                   <<"phrase">>)
    /\ \E i \in 1..Len(result.body.phrase_cards) :
          result.body.phrase_cards[i].cue = <<"Delivery: brisk and concise">>

\* C29: a session chat whose backend call fails leaves its session as it
\* was: no turn is appended and the context token keeps its value; the
\* history and the context token of a session change together, and only in
\* the step that records the turn of a successful backend response.
C29_FailedTurnNoChange ==
    [][/\ (Cardinality(inflight') < Cardinality(inflight) /\ data' = HttpError)
            => SESSIONS' = SESSIONS
       /\ \A s \in DOMAIN SESSIONS :
            (\/ SESSIONS'[s].context # SESSIONS[s].context
             \/ SESSIONS'[s].history # SESSIONS[s].history)
                => /\ Cardinality(inflight') < Cardinality(inflight)
                   /\ answered' = Answers("chat", s)
                   /\ data'.kind = "data"
                   /\ Len(SESSIONS'[s].history) = Len(SESSIONS[s].history) + 1
                   /\ SESSIONS'[s].context = data'.context]_vars

\* a chat has failed on a session that holds a turn and a context token
C29_FailedAfterTurn ==
    /\ answered.op = "chat"
    /\ data = HttpError
    /\ answered.session_id \in DOMAIN SESSIONS
    /\ Len(SESSIONS[answered.session_id].history) = 1
    /\ SESSIONS[answered.session_id].context = JList(<<JNum(1)>>)

\* C30: the mode and the number of turns that a session chat reports are
\* the mode and the length of the history that the store holds for the
\* session when the turn of that chat is recorded, whatever mode updates and
\* other chats of the session came in between.
C30_ReportedAsStored ==
    (answered.op = "chat" /\ result.status = "ok")
        => /\ result.body.mode = SESSIONS[answered.session_id].mode
           /\ result.body.turns = Len(SESSIONS[answered.session_id].history)

\* C31: sessions are isolated: create leaves every existing session as it
\* is and yields a session with no turn and no context token; a chat turn or
\* a mode update on one session changes the mode, history and context token
\* of no other session.
C31_SessionIsolation ==
    [][/\ \A s \in DOMAIN SESSIONS :
            /\ s \in DOMAIN SESSIONS'
            /\ SESSIONS'[s] # SESSIONS[s]
                  => /\ answered'.session_id = s
                     /\ answered'.op \in {"update", "chat"}
       /\ \A s \in DOMAIN SESSIONS' \ DOMAIN SESSIONS :
            /\ answered' = Answers("create", s)
            /\ SESSIONS'[s].history = <<>>
            /\ SESSIONS'[s].context = None
            /\ result'.body.turns = 0]_vars

\* a session was created beside one that holds a turn and a context token
C31_CreatedBesideUsed ==
    /\ answered.op = "create"
    /\ \E s \in DOMAIN SESSIONS :
          /\ s # answered.session_id
          /\ Len(SESSIONS[s].history) = 1
          /\ SESSIONS[s].context = JList(<<JNum(2)>>)
    /\ SESSIONS[answered.session_id].history = <<>>

\* the temperature a drill feedback endpoint fixes, in hundredths
FixedTemperature(endpoint) ==
    CASE endpoint = "shadow_feedback" -> 20
      [] endpoint = "substitution_feedback" -> 30
      [] endpoint = "expansion_feedback" -> 35

\* C32: in every drill feedback endpoint (shadowing, substitution,
\* expansion) the sampling options sent to the backend hold the temperature
\* and top_p the endpoint fixes, whatever the caller sends for those keys,
\* and one generation call is made for a request.
C32_FixedSampling ==
    /\ Len(calls) <= 1
    /\ pc \in {"await", "done"} => Len(calls) = 1
    /\ \A i \in 1..Len(calls) :
          /\ OptGet(calls[i].options, "temperature", -1)
                = FixedTemperature(req.endpoint)
          /\ OptGet(calls[i].options, "top_p", -1) = 90

====
